---- MODULE Spec2Model ----
(***************************************************************************)
(* A model of magmatic's node protocol engine: ConnectionManager           *)
(* (src/magmatic/node.py), Node, NodePool (src/magmatic/pool.py) and the   *)
(* part of Player (src/magmatic/player.py) the node engine calls.          *)
(*                                                                         *)
(* The program runs on one asyncio event loop: the code between two        *)
(* awaits is one atomic step.  Every action below is the code of one task  *)
(* from one suspension point to the next.                                  *)
(***************************************************************************)
EXTENDS Integers, Sequences, FiniteSets, TLC

\* ------------------------------------------------------------------ bounds

\* websockets established in one run (each successful ws_connect also creates
\* one listener task, so this bounds the listener tasks too)
MaxConn == 3
\* handle_message tasks created and not yet run
MaxPending == 1

\* the largest REQUEST_MAX_TRIES a ConnectionManager is configured with
MaxTries == 3

Guilds == {1, 2}
\* values of state.time in a playerUpdate frame / of a stats frame
Times == {1}

WsIds == 1..MaxConn
TaskIds == 1..MaxConn

\* the outbound op codes of ConnectionManager.send_* (node.py 366-450)
Commands ==
    {"play", "stop", "pause", "seek", "volume", "destroy", "filters",
     "voiceUpdate", "configureResuming"}

\* what session.ws_connect can do (node.py 207-224): a websocket (open, or
\* already closed when connect looks at it, line 232), a handshake rejected
\* with status 401, another failed handshake, any other exception
WsConnectOutcomes == {"open", "closed", "401", "handshake", "error"}

\* node identifiers: the default of the first node of a pool (pool.py 165),
\* one chosen by the application, and one drawn by os.urandom (node.py 557)
Identifiers == {"MAIN", "a", "<hex>"}

\* HTTP statuses of the node's REST API and the JSON bodies it answers with
Statuses == {200, 404, 500}
Bodies == {"b1", "b2"}

\* inbound frames the model delivers (OpCode, enums.py 15-35)
Frames ==
    [op : {"stats"}, time : Times]
    \cup [op : {"playerUpdate"}, guildId : Guilds, time : Times]

VARIABLES
    ws,             \* ConnectionManager._ws: 0 is None, else a websocket id
    wsOpen,         \* the websockets whose `closed` is False
    wsCount,        \* websockets created so far
    listener,       \* ConnectionManager._listener: 0 is None, else a task id
    tasks,          \* the listener tasks: position, websocket iterated, ...
    keep_alive,     \* ConnectionManager._keep_alive
    ws_resume_key,  \* ConnectionManager._ws_resume_key is not None
    players,        \* Node._players: guild ids in insertion order
    state,          \* Player._previous_update_time of each guild's player
    stats,          \* Node._stats (0 is None)
    handlers,       \* handle_message tasks created by listen, in order
    sent,           \* the frames the step just taken wrote: <<op, websocket>>
    dispatched,     \* the events the step just taken dispatched to the bot
    caller,         \* the application task calling into the node
    identifier,     \* Node.identifier ("" : node not constructed yet)
    nodes,          \* NodePool._nodes: each key holds nothing (0), this node
                    \* (1) or another node (2)
    cleanup,        \* node._cleanup was injected by a pool
    req,            \* a ConnectionManager.request call
    track,          \* Player._track of each guild's player ("" is None)
    call,           \* the application's call of the track API (search, fetch),
                    \* of a queue method, of a filter sink or of Player.play;
                    \* a second application task's call of connect
    queue,          \* a queue object, its waiters and what it returned so far
    server,         \* the Lavalink server: the track it plays for each guild
                    \* ("" : none)
    filters,        \* FilterSink._filters: the filter held under each key
                    \* (0 : none)
    suspended       \* handle_message tasks suspended in player.reconnect()

vars ==
    <<ws, wsOpen, wsCount, listener, tasks, keep_alive, ws_resume_key, players,
      state, stats, handlers, sent, dispatched, caller, identifier, nodes,
      cleanup, req, track, call, queue, server, filters, suspended>>

connVars == <<ws, wsOpen, wsCount, listener, tasks, keep_alive>>
playerVars == <<players, state, stats, handlers>>
poolVars == <<identifier, nodes, cleanup>>

\* ----------------------------------------------------------------- helpers

NoTask == [pc |-> "none", iter |-> 0, cancel |-> FALSE, exit |-> ""]
NewTask == [pc |-> "start", iter |-> 0, cancel |-> FALSE, exit |-> ""]

Idle(op, exit) ==
    [op |-> op, pc |-> "idle", reconnect |-> FALSE, exit |-> exit,
     todo |-> <<>>, destroy |-> FALSE]

\* ConnectionManager.is_connected
IsConnected == ws # 0 /\ ws \in wsOpen

\* a disconnect that leaves the listener task running
CancelListenerSkipped(ts) == ts

\* `if self._listener and not self._listener.done(): self._listener.cancel()`
CancelListener(ts) ==
    IF listener # 0 /\ ts[listener].pc # "done"
    THEN [ts EXCEPT ![listener].cancel = TRUE]
    ELSE ts

\* a close that leaves the websocket open
CloseWsSkipped(open) == open

\* `await self._ws.close()`: the websocket is closed when the call returns
CloseWs(open) == open \ {ws}

\* a connect that tells no failure from another
ConnectRaisesUntyped(outcome) == "ConnectionFailure"

\* the exception connect raises for a failed ws_connect
ConnectRaises(outcome) ==
    CASE outcome = "401" -> "AuthorizationFailure"
      [] outcome = "handshake" -> "HandshakeFailure"
      [] OTHER -> "ConnectionFailure"

\* the tasks after task t ended. A finished task that self._listener no
\* longer refers to is garbage: nothing reads how it ended
Done(ts, t, exit) ==
    [ts EXCEPT ![t] = [pc |-> "done", iter |-> 0, cancel |-> FALSE,
                       exit |-> IF t = listener THEN exit ELSE ""]]

\* the tasks after `self._listener.cancel()` and
\* `self._listener = self.loop.create_task(self.listen())`
SpawnListener(ts) ==
    [t \in TaskIds |->
        IF t = wsCount + 1 THEN NewTask
        ELSE IF t = listener /\ ts[t].pc = "done" THEN Done(ts, t, "")[t]
        ELSE CancelListener(ts)[t]]

\* ConnectionManager.send: what a send does on the websocket w
SendOutcome(w, open) ==
    IF w = 0 THEN "RuntimeError"
    ELSE IF w \notin open THEN "ConnectionResetError"
    ELSE "sent"

Remove(s, x) == SelectSeq(s, LAMBDA y : y # x)
InSeq(s, x) == \E i \in 1..Len(s) : s[i] = x

\* a step that writes no frame and dispatches no event
Quiet == sent' = <<>> /\ dispatched' = <<>>

\* ConnectionManager.REQUEST_MAX_TRIES as the class declares it
REQUEST_MAX_TRIES == 1

\* no request under way, with the ConnectionManager's REQUEST_MAX_TRIES
NoRequest(max) ==
    [pc |-> "idle", max |-> max, i |-> 0, tries |-> 0, log |-> <<>>,
     exit |-> "", result |-> "", response |-> ""]

\* no call of the track API under way
NoCall == [op |-> "", pc |-> "idle"]

\* no queue object made yet
NoQueue == [kind |-> ""]

\* the keys of FilterSink._filters (filters.py 109, 173, 381)
FilterKinds == {"volume", "equalizer", "timescale"}

\* FilterSink.__init__ without arguments, and after clear(): no filter
NoFilters == [k \in FilterKinds |-> 0]

\* ------------------------------------------------------------------- Init

Init ==
    /\ ws = 0
    /\ wsOpen = {}
    /\ wsCount = 0
    /\ listener = 0
    /\ tasks = [t \in TaskIds |-> NoTask]
    /\ keep_alive = TRUE
    /\ ws_resume_key \in BOOLEAN
    /\ players = <<>>
    /\ state = [g \in Guilds |-> 0]
    /\ stats = 0
    /\ handlers = <<>>
    /\ sent = <<>>
    /\ dispatched = <<>>
    /\ caller = Idle("", "")
    /\ identifier = "MAIN"
    /\ nodes = [k \in Identifiers |-> IF k = "MAIN" THEN 1 ELSE 0]
    /\ cleanup = TRUE
    /\ req = NoRequest(REQUEST_MAX_TRIES)
    /\ track = [g \in Guilds |-> ""]
    /\ call = NoCall
    /\ queue = NoQueue
    /\ server = [g \in Guilds |-> ""]
    /\ filters = NoFilters
    /\ suspended = <<>>

\* ------------------------------------------- ConnectionManager.connect

\* a connect that always reconnects
ConnectNeverReturnsEarly(reconnect) == FALSE

\* node.py 200-202: connect returns at once, touching nothing
ConnectReturnsEarly(reconnect) == IsConnected /\ ~reconnect

\* node.py 236: a resume command follows the handshake
SendsResume == ws_resume_key

\* node.py 208, 230: `self._ws = await ws_connect(...)`,
\* `self._listener = create_task(self.listen())`
Established(outcome) ==
    /\ wsCount' = wsCount + 1
    /\ ws' = wsCount + 1
    /\ wsOpen' = IF outcome = "open" THEN wsOpen \cup {wsCount + 1} ELSE wsOpen
    /\ listener' = wsCount + 1

\* node.py 232-239 on the new websocket: the resume command and the
\* node-ready event; `cancelled` says the running task was cancelled inside
\* send_str
AfterHandshake(outcome, cancelled) ==
    /\ sent' = IF outcome = "open" /\ SendsResume
               THEN << <<"configureResuming", wsCount + 1>> >>
               ELSE <<>>
    /\ dispatched' = IF outcome = "open" /\ ~cancelled
                     THEN <<"magmatic_node_ready">>
                     ELSE <<>>

\* a caller calls ConnectionManager.connect(reconnect=...) (Node.connect and
\* Node.start pass the default, True), up to the await of ws_connect
CallConnect(reconnect) ==
    /\ caller.pc = "idle"
    /\ identifier # ""
    /\ IF ConnectReturnsEarly(reconnect)
       THEN /\ caller' = [Idle("connect", "return@202") EXCEPT
                             !.reconnect = reconnect]
            /\ UNCHANGED wsOpen
       ELSE /\ wsOpen' = IF IsConnected THEN CloseWs(wsOpen) ELSE wsOpen
            /\ caller' = [Idle("connect", "") EXCEPT
                             !.pc = "connecting", !.reconnect = reconnect]
    /\ Quiet
    /\ UNCHANGED <<ws, wsCount, listener, tasks, keep_alive, ws_resume_key,
                   playerVars, poolVars, req, track, call, queue, server, filters, suspended>>

\* the caller's ws_connect completes: node.py 207-239
CallerWsConnect(outcome) ==
    /\ caller.pc = "connecting"
    /\ IF outcome \in {"open", "closed"}
       THEN /\ wsCount < MaxConn
            /\ Established(outcome)
            /\ tasks' = SpawnListener(tasks)
            /\ AfterHandshake(outcome, FALSE)
            /\ caller' = [Idle("connect",
                               IF outcome = "open" THEN "return@239"
                               ELSE "return@234")
                            EXCEPT !.reconnect = caller.reconnect]
       ELSE /\ caller' = [Idle("connect", ConnectRaises(outcome))
                            EXCEPT !.reconnect = caller.reconnect]
            /\ Quiet
            /\ UNCHANGED <<ws, wsOpen, wsCount, listener, tasks, server, filters, suspended>>
    /\ UNCHANGED <<keep_alive, ws_resume_key, playerVars, poolVars, req, track, call, queue, server, filters, suspended>>

\* ---------------------------------------- ConnectionManager.disconnect

\* node.py 243-249 up to the await of close
ConnDisconnect(reconnect) ==
    /\ keep_alive' = reconnect
    /\ tasks' = CancelListener(tasks)
    /\ wsOpen' = IF ws # 0 THEN CloseWs(wsOpen) ELSE wsOpen

\* node.py 782: Node.destroy's `self._cleanup()`, the wrapper of
\* NodePool._inject_cleanup (pool.py 398-402)
Cleanup(ns) == [ns EXCEPT ![identifier] = 0]

\* NodePool.destroy (pool.py 393-396) after this node's destroy() returned
\* to its loop: `for node in self.walk_nodes()` asks the iterator of
\* self._nodes.values() (pool.py 71) for the next node, and a dict iterator
\* raises RuntimeError once the size of the dict has changed. The nodes of
\* the pool other than this one are held under their own identifiers: the
\* destroy() of one of them pops its key
PoolDestroyGoesOn ==
    LET after == Cleanup(nodes)
        rest == {k \in Identifiers : after[k] = 2}
    IN IF after # nodes
       THEN /\ nodes' = after
            /\ caller' = Idle("pool_destroy", "RuntimeError")
       ELSE IF rest # {}
       THEN \E k \in rest :
               /\ nodes' = [after EXCEPT ![k] = 0]
               /\ caller' = Idle("pool_destroy", "RuntimeError")
       ELSE /\ nodes' = [k \in Identifiers |-> 0]
            /\ caller' = Idle("pool_destroy", "return")

\* what follows connection.disconnect in the caller's operation `op`
Finish(op, destroy) ==
    IF destroy
    THEN IF cleanup
         THEN IF op = "pool_destroy"
              THEN PoolDestroyGoesOn
              ELSE /\ nodes' = Cleanup(nodes)
                   /\ caller' = Idle(op, "return")
         ELSE /\ caller' = Idle(op, "AttributeError")
              /\ UNCHANGED nodes
    ELSE /\ caller' = Idle(op, "return")
         /\ UNCHANGED nodes

\* a caller calls ConnectionManager.disconnect(reconnect=...)
CallDisconnect(reconnect) ==
    /\ caller.pc = "idle"
    /\ identifier # ""
    /\ ConnDisconnect(reconnect)
    /\ caller' = IF ws # 0
                 THEN [Idle("disconnect", "") EXCEPT !.pc = "closing"]
                 ELSE Idle("disconnect", "return")
    /\ Quiet
    /\ UNCHANGED <<ws, wsCount, listener, ws_resume_key, playerVars, poolVars,
                   req, track, call, queue, server, filters, suspended>>

\* `await self._ws.close()` returns to the caller (node.py 249), and with it
\* disconnect; Node.destroy goes on to _cleanup (node.py 782)
CallerClosed ==
    /\ caller.pc = "closing"
    /\ Finish(caller.op, caller.destroy)
    /\ Quiet
    /\ UNCHANGED <<connVars, ws_resume_key, playerVars, identifier, cleanup,
                   req, track, call, queue, server, filters, suspended>>

\* ------------------------------------------- Node.disconnect / destroy

\* node.py 762-765 from the loop over the players left in `todo`: one
\* Player.destroy (player.py 394-412), or, the list done,
\* connection.disconnect(reconnect=False)
DestroyStep(op, todo, destroy) ==
    IF todo = <<>>
    THEN /\ ConnDisconnect(FALSE)
         /\ IF ws # 0
            THEN /\ caller' = [Idle(op, "") EXCEPT
                                  !.pc = "closing", !.destroy = destroy]
                 /\ UNCHANGED nodes
            ELSE Finish(op, destroy)
         /\ sent' = <<>>
         /\ UNCHANGED <<players, state, server, filters, suspended>>
    ELSE LET p == Head(todo)
             out == SendOutcome(ws, wsOpen) IN
         /\ IF out = "sent"
            THEN /\ sent' = << <<"destroy", ws>> >>
                 /\ players' = Remove(players, p)
                 /\ state' = [state EXCEPT ![p] = 0]
                 /\ caller' = [Idle(op, "") EXCEPT
                                  !.pc = "players", !.todo = Tail(todo),
                                  !.destroy = destroy]
            ELSE /\ caller' = Idle(op, out)
                 /\ sent' = <<>>
                 /\ UNCHANGED <<players, state, server, filters, suspended>>
         /\ UNCHANGED <<keep_alive, tasks, wsOpen, nodes, server, filters, suspended>>

\* a caller calls Node.disconnect (destroy = FALSE) or Node.destroy
CallNodeDisconnect(destroy) ==
    /\ caller.pc = "idle"
    /\ identifier # ""
    /\ DestroyStep(IF destroy THEN "destroy" ELSE "node_disconnect",
                   players, destroy)
    /\ dispatched' = <<>>
    /\ UNCHANGED <<ws, wsCount, listener, ws_resume_key, stats, handlers,
                   identifier, cleanup, req, track, call, queue, server, filters, suspended>>

\* the loop of Node.disconnect resumes after one player's destroy
NextPlayer ==
    /\ caller.pc = "players"
    /\ DestroyStep(caller.op, caller.todo, caller.destroy)
    /\ dispatched' = <<>>
    /\ UNCHANGED <<ws, wsCount, listener, ws_resume_key, stats, handlers,
                   identifier, cleanup, req, track, call, queue, server, filters, suspended>>

\* ------------------------------------------------- send, get_player

\* a caller sends one outbound command through ConnectionManager.send
\* (node.py 349-364)
CallSend(cmd) ==
    /\ caller.pc = "idle"
    /\ identifier # ""
    /\ LET out == SendOutcome(ws, wsOpen) IN
       /\ sent' = IF out = "sent" THEN << <<cmd, ws>> >> ELSE <<>>
       /\ caller' = Idle("send", out)
    /\ dispatched' = <<>>
    /\ UNCHANGED <<connVars, ws_resume_key, playerVars, poolVars, req, track, call, queue, server, filters, suspended>>

\* Node.get_player(guild) creating the guild's player (node.py 655-659)
GetPlayer(g) ==
    /\ caller.pc = "idle"
    /\ identifier # ""
    /\ ~InSeq(players, g)
    /\ players' = Append(players, g)
    /\ state' = [state EXCEPT ![g] = 0]
    /\ caller' = Idle("get_player", "return")
    /\ Quiet
    /\ UNCHANGED <<connVars, ws_resume_key, stats, handlers, poolVars, req, track, call, queue, server, filters, suspended>>

\* --------------------------------------------- ConnectionManager.listen

\* a task the event loop cancelled ends at the await it is suspended in
TaskCancelled(t) ==
    /\ tasks[t].cancel
    /\ tasks[t].pc \in {"start", "recv", "sleep", "connecting"}
    /\ tasks' = Done(tasks, t, "cancelled")
    /\ Quiet
    /\ UNCHANGED <<ws, wsOpen, wsCount, listener, keep_alive, ws_resume_key,
                   playerVars, caller, poolVars, req, track, call, queue, server, filters, suspended>>

\* node.py 318-323: the task starts and iterates the current websocket
ListenStart(t) ==
    /\ tasks[t].pc = "start"
    /\ ~tasks[t].cancel
    /\ tasks' = IF ws = 0
                THEN Done(tasks, t, "return@319")
                ELSE [tasks EXCEPT ![t].pc = "recv", ![t].iter = ws]
    /\ Quiet
    /\ UNCHANGED <<ws, wsOpen, wsCount, listener, keep_alive, ws_resume_key,
                   playerVars, caller, poolVars, req, track, call, queue, server, filters, suspended>>

\* node.py 323, 335-347: a frame arrives and its handle_message task is
\* created
Frame(t, f) ==
    /\ tasks[t].pc = "recv"
    /\ ~tasks[t].cancel
    /\ tasks[t].iter \in wsOpen
    /\ Len(handlers) < MaxPending
    /\ handlers' = Append(handlers, f)
    /\ Quiet
    /\ UNCHANGED <<connVars, ws_resume_key, players, state, stats, caller,
                   poolVars, req, track, call, queue, server, filters, suspended>>

\* node.py 336-345: a message whose data is 1011
InternalError(t) ==
    /\ tasks[t].pc = "recv"
    /\ ~tasks[t].cancel
    /\ tasks[t].iter \in wsOpen
    /\ keep_alive' = TRUE
    /\ wsOpen' = IF ws # 0 THEN CloseWs(wsOpen) ELSE wsOpen
    /\ tasks' = Done(CancelListener(tasks), t, "return@345")
    /\ Quiet
    /\ UNCHANGED <<ws, wsCount, listener, ws_resume_key, playerVars, caller,
                   poolVars, req, track, call, queue, server, filters, suspended>>

\* the remote node closes a websocket
PeerClose(w) ==
    /\ w \in wsOpen
    /\ wsOpen' = wsOpen \ {w}
    /\ Quiet
    /\ UNCHANGED <<ws, wsCount, listener, tasks, keep_alive, ws_resume_key,
                   playerVars, caller, poolVars, req, track, call, queue, server, filters, suspended>>

\* node.py 323-330: the closed websocket hands the loop a message of type
\* CLOSED; the task computes the delay and sleeps
ListenClosedMessage(t) ==
    /\ tasks[t].pc = "recv"
    /\ tasks[t].iter \notin wsOpen
    /\ tasks' = [tasks EXCEPT ![t].pc = "sleep"]
    /\ Quiet
    /\ UNCHANGED <<ws, wsOpen, wsCount, listener, keep_alive, ws_resume_key,
                   playerVars, caller, poolVars, req, track, call, queue, server, filters, suspended>>

\* node.py 323: the closed websocket ends the iteration (aiohttp's
\* ClientWebSocketResponse.__anext__ raises StopAsyncIteration for a CLOSE,
\* CLOSING or CLOSED message), the loop is left and listen returns
ListenExhausted(t) ==
    /\ tasks[t].pc = "recv"
    /\ tasks[t].iter \notin wsOpen
    /\ tasks' = Done(tasks, t, "return")
    /\ Quiet
    /\ UNCHANGED <<ws, wsOpen, wsCount, listener, keep_alive, ws_resume_key,
                   playerVars, caller, poolVars, req, track, call, queue, server, filters, suspended>>

\* node.py 330-331: the sleep ends and the task calls
\* connect(reconnect=self._keep_alive), up to the await of ws_connect
ListenWake(t) ==
    /\ tasks[t].pc = "sleep"
    /\ ~tasks[t].cancel
    /\ IF ConnectReturnsEarly(keep_alive)
       THEN /\ tasks' = [tasks EXCEPT ![t].pc = "recv"]
            /\ UNCHANGED wsOpen
       ELSE /\ wsOpen' = IF IsConnected THEN CloseWs(wsOpen) ELSE wsOpen
            /\ tasks' = [tasks EXCEPT ![t].pc = "connecting"]
    /\ Quiet
    /\ UNCHANGED <<ws, wsCount, listener, keep_alive, ws_resume_key, playerVars,
                   caller, poolVars, req, track, call, queue, server, filters, suspended>>

\* the listener after its ws_connect failed: the exception node.py 217-224
\* raises leaves connect and listen, and the task ends with it
ListenerRaised(ts, t, outcome) == Done(ts, t, ConnectRaises(outcome))

\* the listener's ws_connect completes: node.py 207-239, then 333. The task
\* running connect is self._listener, which line 228 cancels: it goes on to
\* the next await, or is cancelled inside the send of the resume command
ListenerWsConnect(t, outcome, cancelled) ==
    /\ tasks[t].pc = "connecting"
    /\ ~tasks[t].cancel
    /\ IF outcome \in {"open", "closed"}
       THEN /\ wsCount < MaxConn
            /\ cancelled => outcome = "open" /\ SendsResume /\ listener = t
            /\ Established(outcome)
            /\ tasks' = IF cancelled
                        THEN [SpawnListener(tasks) EXCEPT ![t] = Done(tasks, t, "")[t]]
                        ELSE [SpawnListener(tasks) EXCEPT ![t].pc = "recv"]
            /\ AfterHandshake(outcome, cancelled)
       ELSE /\ ~cancelled
            /\ tasks' = ListenerRaised(tasks, t, outcome)
            /\ Quiet
            /\ UNCHANGED <<ws, wsOpen, wsCount, listener, server, filters, suspended>>
    /\ UNCHANGED <<keep_alive, ws_resume_key, playerVars, caller, poolVars, req, track, call, queue, server, filters, suspended>>

\* ------------------------------------- ConnectionManager.handle_message

\* the oldest handle_message task runs (node.py 251-281)
HandleMessage ==
    /\ handlers # <<>>
    /\ LET f == Head(handlers) IN
       /\ handlers' = Tail(handlers)
       /\ IF f.op = "stats"
          THEN /\ stats' = f.time
               /\ UNCHANGED state
          ELSE /\ state' = IF InSeq(players, f.guildId)
                           THEN [state EXCEPT ![f.guildId] = f.time]
                           ELSE state
               /\ UNCHANGED stats
    /\ Quiet
    /\ UNCHANGED <<connVars, ws_resume_key, players, caller, poolVars, req, track, call, queue, server, filters, suspended>>

\* --------------------------------------------------------- specification

\* the steps of the application task
CallerStep ==
    \/ \E r \in BOOLEAN : CallConnect(r)
    \/ \E o \in WsConnectOutcomes : CallerWsConnect(o)
    \/ \E r \in BOOLEAN : CallDisconnect(r)
    \/ CallerClosed
    \/ \E d \in BOOLEAN : CallNodeDisconnect(d)
    \/ NextPlayer
    \/ \E c \in Commands : CallSend(c)
    \/ \E g \in Guilds : GetPlayer(g)

\* the steps of the listener tasks and of the remote node
ListenerStep ==
    \/ \E t \in TaskIds : TaskCancelled(t)
    \/ \E t \in TaskIds : ListenStart(t)
    \/ \E t \in TaskIds : InternalError(t)
    \/ \E w \in WsIds : PeerClose(w)
    \/ \E t \in TaskIds : ListenClosedMessage(t)
    \/ \E t \in TaskIds : ListenExhausted(t)
    \/ \E t \in TaskIds : ListenWake(t)
    \/ \E t \in TaskIds, o \in WsConnectOutcomes, c \in BOOLEAN :
          ListenerWsConnect(t, o, c)

Next == CallerStep \/ ListenerStep

Spec == Init /\ [][Next]_vars

\* ----------------------------------------------------------- NodePool

\* the application has constructed the node, and is not inside a call
Ready == caller.pc = "idle" /\ identifier # ""

\* Node.__init__ (node.py 557): `identifier or os.urandom(8).hex()`
NodeIdentifier(given) == IF given = "" THEN "<hex>" ELSE given

PoolEmpty == \A k \in Identifiers : nodes[k] = 0

\* the application constructs the node itself: Node(identifier=...)
Construct(given) ==
    /\ caller.pc = "idle"
    /\ identifier = ""
    /\ identifier' = NodeIdentifier(given)
    /\ caller' = Idle("Node", "return")
    /\ Quiet
    /\ UNCHANGED <<connVars, ws_resume_key, playerVars, nodes, cleanup, req, track, call, queue, server, filters, suspended>>

\* NodePool.create_node(identifier=...) (pool.py 164-186); `start` is
\* start_node (pool.py 261-276), which goes on to node.start()
CreateNode(given, start) ==
    /\ caller.pc = "idle"
    /\ identifier = ""
    /\ LET id == IF given = "" /\ PoolEmpty THEN "MAIN" ELSE given IN
       IF id # "" /\ nodes[id] # 0
       THEN /\ caller' = Idle("create_node", "NodeConflict")
            /\ UNCHANGED <<identifier, nodes, cleanup, server, filters, suspended>>
       ELSE /\ identifier' = NodeIdentifier(id)
            /\ nodes' = [nodes EXCEPT ![NodeIdentifier(id)] = 1]
            /\ cleanup' = TRUE
            /\ caller' = IF start
                         THEN [Idle("connect", "") EXCEPT
                                  !.pc = "connecting", !.reconnect = TRUE]
                         ELSE Idle("create_node", "return")
    /\ Quiet
    /\ UNCHANGED <<connVars, ws_resume_key, playerVars, req, track, call, queue, server, filters, suspended>>

\* the key NodePool.add_node stores the node under (pool.py 84-90)
AddNodeKey(given) == IF given = "" THEN identifier ELSE given

\* NodePool.add_node(node, identifier=...) (pool.py 84-91)
AddNode(given) ==
    /\ Ready
    /\ IF nodes[AddNodeKey(given)] # 0
       THEN /\ caller' = Idle("add_node", "NodeConflict")
            /\ UNCHANGED <<nodes, cleanup, server, filters, suspended>>
       ELSE /\ nodes' = [nodes EXCEPT ![AddNodeKey(given)] = 1]
            /\ cleanup' = TRUE
            /\ caller' = Idle("add_node", "return")
    /\ Quiet
    /\ UNCHANGED <<connVars, ws_resume_key, playerVars, identifier, req, track, call, queue, server, filters, suspended>>

\* NodePool.destroy_node(node) (pool.py 381-384): get_node(node.identifier)
\* (pool.py 300-307), then destroy() of the node found there
DestroyNode ==
    /\ Ready
    /\ IF PoolEmpty
       THEN /\ caller' = Idle("destroy_node", "NoAvailableNodes")
            /\ Quiet
            /\ UNCHANGED <<keep_alive, tasks, wsOpen, nodes, players, state, server, filters, suspended>>
       ELSE IF nodes[identifier] = 0
       THEN /\ caller' = Idle("destroy_node", "NoMatchingNodes")
            /\ Quiet
            /\ UNCHANGED <<keep_alive, tasks, wsOpen, nodes, players, state, server, filters, suspended>>
       ELSE IF nodes[identifier] = 2
       THEN \* another node is held under this node's identifier: it is
            \* the one destroyed (the other nodes of the pool are held
            \* under their own identifiers)
            /\ caller' = Idle("destroy_node", "return")
            /\ nodes' = Cleanup(nodes)
            /\ Quiet
            /\ UNCHANGED <<keep_alive, tasks, wsOpen, players, state, server, filters, suspended>>
       ELSE /\ DestroyStep("destroy_node", players, TRUE)
            /\ dispatched' = <<>>
    /\ UNCHANGED <<ws, wsCount, listener, ws_resume_key, stats, handlers,
                   identifier, cleanup, req, track, call, queue, server, filters, suspended>>

\* NodePool.destroy() (pool.py 386-396) up to the first await of the
\* destroy() of this node, the first the iterator hands out; or, the first
\* being another node, to the end of that node's destroy() and the
\* iterator's next step
CallPoolDestroy ==
    /\ caller.pc = "idle"
    /\ IF PoolEmpty
       THEN /\ caller' = Idle("pool_destroy", "return")
            /\ Quiet
            /\ UNCHANGED <<keep_alive, tasks, wsOpen, nodes, players, state>>
       ELSE \E k \in {i \in Identifiers : nodes[i] # 0} :
               IF nodes[k] = 2
               THEN /\ nodes' = [nodes EXCEPT ![k] = 0]
                    /\ caller' = Idle("pool_destroy", "RuntimeError")
                    /\ Quiet
                    /\ UNCHANGED <<keep_alive, tasks, wsOpen, players, state>>
               ELSE /\ DestroyStep("pool_destroy", players, TRUE)
                    /\ dispatched' = <<>>
    /\ UNCHANGED <<ws, wsCount, listener, ws_resume_key, stats, handlers,
                   identifier, cleanup, req, track, call, queue, server,
                   filters, suspended>>

\* a pool that may already hold other nodes, and a node yet to be made
PoolInit ==
    /\ ws = 0
    /\ wsOpen = {}
    /\ wsCount = 0
    /\ listener = 0
    /\ tasks = [t \in TaskIds |-> NoTask]
    /\ keep_alive = TRUE
    /\ ws_resume_key \in BOOLEAN
    /\ players = <<>>
    /\ state = [g \in Guilds |-> 0]
    /\ stats = 0
    /\ handlers = <<>>
    /\ sent = <<>>
    /\ dispatched = <<>>
    /\ caller = Idle("", "")
    /\ identifier = ""
    /\ nodes \in [Identifiers -> {0, 2}]
    /\ nodes["<hex>"] = 0
    /\ cleanup = FALSE
    /\ req = NoRequest(REQUEST_MAX_TRIES)
    /\ track = [g \in Guilds |-> ""]
    /\ call = NoCall
    /\ queue = NoQueue
    /\ server = [g \in Guilds |-> ""]
    /\ filters = NoFilters
    /\ suspended = <<>>

PoolStep ==
    \/ \E k \in {"", "a"} : Construct(k)
    \/ \E k \in {"", "MAIN", "a"}, s \in BOOLEAN : CreateNode(k, s)
    \/ \E k \in {"", "MAIN", "a"} : AddNode(k)
    \/ DestroyNode
    \/ CallConnect(TRUE)
    \/ \E o \in WsConnectOutcomes : CallerWsConnect(o)
    \/ \E g \in Guilds : GetPlayer(g)
    \/ CallNodeDisconnect(TRUE)
    \/ NextPlayer
    \/ CallerClosed
    \/ \E w \in WsIds : PeerClose(w)

PoolSpec == PoolInit /\ [][PoolStep]_vars

\* the pool and its nodes, with NodePool.destroy
PoolDestroyStep == PoolStep \/ CallPoolDestroy

PoolDestroySpec == PoolInit /\ [][PoolDestroyStep]_vars

\* ------------------------------------------ ConnectionManager.request

\* aiohttp's ClientResponse.ok
Ok(status) == status < 400

\* a retry test that is off by one
RetriesOnceMore(i, max) == i < max

\* node.py 501: another attempt follows attempt i
Retries(i, max) == i + 1 < max

\* node.py 506-509: what the exhausted request raises for the last response
RequestRaises(status) == IF status = 404 THEN "NotFound" ELSE "HTTPException"

\* a caller calls ConnectionManager.request: node.py 485-499, up to the
\* await of the first response (513 when the loop has nothing to run)
CallRequest ==
    /\ req.pc = "idle"
    /\ req' = IF req.max < 1
              THEN [NoRequest(req.max) EXCEPT !.pc = "done", !.exit = "RuntimeError"]
              ELSE [NoRequest(req.max) EXCEPT !.pc = "waiting", !.tries = 1]
    /\ UNCHANGED <<connVars, ws_resume_key, playerVars, sent, dispatched,
                   caller, poolVars, track, call, queue, server, filters, suspended>>

\* the node answers attempt req.i: node.py 499-511
Respond(status, body) ==
    /\ req.pc = "waiting"
    /\ LET r == [status |-> status, body |-> body]
           log == Append(req.log, r) IN
       req' = IF Ok(status)
              THEN [req EXCEPT !.pc = "done", !.log = log,
                               !.exit = "return", !.result = body]
              ELSE IF Retries(req.i, req.max)
              THEN [req EXCEPT !.pc = "sleep", !.log = log]
              ELSE [req EXCEPT !.pc = "done", !.log = log,
                               !.exit = RequestRaises(status),
                               !.response = r]
    /\ UNCHANGED <<connVars, ws_resume_key, playerVars, sent, dispatched,
                   caller, poolVars, track, call, queue, server, filters, suspended>>

\* the backoff sleep ends (node.py 503-504, 498-499): the next attempt
RequestWake ==
    /\ req.pc = "sleep"
    /\ req' = IF req.i + 1 < req.max
              THEN [req EXCEPT !.pc = "waiting", !.i = req.i + 1,
                               !.tries = req.tries + 1]
              ELSE [req EXCEPT !.pc = "done", !.exit = "RuntimeError"]
    /\ UNCHANGED <<connVars, ws_resume_key, playerVars, sent, dispatched,
                   caller, poolVars, track, call, queue, server, filters, suspended>>

\* a ConnectionManager whose REQUEST_MAX_TRIES is any budget from 1 up
RequestInit ==
    /\ ws = 0
    /\ wsOpen = {}
    /\ wsCount = 0
    /\ listener = 0
    /\ tasks = [t \in TaskIds |-> NoTask]
    /\ keep_alive = TRUE
    /\ ws_resume_key \in BOOLEAN
    /\ players = <<>>
    /\ state = [g \in Guilds |-> 0]
    /\ stats = 0
    /\ handlers = <<>>
    /\ sent = <<>>
    /\ dispatched = <<>>
    /\ caller = Idle("", "")
    /\ identifier = "MAIN"
    /\ nodes = [k \in Identifiers |-> IF k = "MAIN" THEN 1 ELSE 0]
    /\ cleanup = TRUE
    /\ \E m \in 1..MaxTries : req = NoRequest(m)
    /\ track = [g \in Guilds |-> ""]
    /\ call = NoCall
    /\ queue = NoQueue
    /\ server = [g \in Guilds |-> ""]
    /\ filters = NoFilters
    /\ suspended = <<>>

RequestStep ==
    \/ CallRequest
    \/ \E s \in Statuses, b \in Bodies : Respond(s, b)
    \/ RequestWake

RequestSpec == RequestInit /\ [][RequestStep]_vars

\* ------------------------------------------------ frames and dispatch

DispatchStep ==
    \/ \E r \in BOOLEAN : CallConnect(r)
    \/ \E o \in WsConnectOutcomes : CallerWsConnect(o)
    \/ \E g \in Guilds : GetPlayer(g)
    \/ CallNodeDisconnect(FALSE)
    \/ NextPlayer
    \/ CallerClosed
    \/ ListenerStep
    \/ \E t \in TaskIds, f \in Frames : Frame(t, f)
    \/ HandleMessage

DispatchSpec == Init /\ [][DispatchStep]_vars

\* --------------------------------- Node._load_tracks, search_tracks

\* the longest query and the longest track list of a load result
MaxQuery == 3
MaxTracks == 2
\* the largest limit passed to search_tracks
MaxLimit == 1

\* a query is a sequence of characters: one of the two the code strips
\* ('<' or '>'), the scheme URL_REGEX looks for ('http://' or 'https://', as
\* one character), and any other character
QueryChars == {"<", "http://", "x"}

RECURSIVE SeqsUpTo(_, _)
SeqsUpTo(S, n) ==
    IF n = 0 THEN {<<>>}
    ELSE LET shorter == SeqsUpTo(S, n - 1) IN
         shorter \cup {Append(s, x) : s \in shorter, x \in S}

Queries == SeqsUpTo(QueryChars, MaxQuery)

\* enums.Source ("none" is None)
Sources == {"none", "youtube", "youtube_music", "soundcloud", "spotify", "local"}

\* Source.value (enums.py 107-120)
SourceValue(source) ==
    CASE source = "youtube" -> "ytsearch"
      [] source = "youtube_music" -> "ytmsearch"
      [] source = "soundcloud" -> "scsearch"
      [] source = "spotify" -> "spotify"
      [] source = "local" -> "local"

\* enums.LoadType
LoadTypes ==
    {"TRACK_LOADED", "PLAYLIST_LOADED", "SEARCH_RESULT", "NO_MATCHES",
     "LOAD_FAILED"}

\* the track lists of a load result: the first n tracks the node knows
TrackLists == {[i \in 1..n |-> i] : n \in 0..MaxTracks}

\* what the node answers a loadtracks request with: the load type, the
\* tracks, and playlistInfo.selectedTrack of a loaded playlist (an index of
\* the track list, or -1)
LoadResults ==
    {[loadType |-> lt, tracks |-> ts, selectedTrack |-> sel] :
        lt \in LoadTypes \ {"PLAYLIST_LOADED"},
        ts \in TrackLists,
        sel \in {-1}}
    \cup
    {r \in [loadType : {"PLAYLIST_LOADED"},
            tracks : TrackLists,
            selectedTrack : -1..(MaxTracks - 1)] :
        r.selectedTrack < Len(r.tracks)}

\* the limit of search_tracks: <<>> is None
Limits == {<<>>} \cup {<<n>> : n \in 0..MaxLimit}

\* str.strip('<>')
RECURSIVE LStrip(_)
LStrip(q) ==
    IF q # <<>> /\ Head(q) = "<" THEN LStrip(Tail(q)) ELSE q

RECURSIVE RStrip(_)
RStrip(q) ==
    IF q # <<>> /\ q[Len(q)] = "<"
    THEN RStrip(SubSeq(q, 1, Len(q) - 1))
    ELSE q

Strip(q) == RStrip(LStrip(q))

\* URL_REGEX.match (node.py 532): '^https?://(?:www\.)?.+'
UrlMatch(subject) == Len(subject) >= 2 /\ subject[1] = "http://"

\* the query prefixed whatever it looks like
AlwaysPrefixed(query, source, strict) ==
    IF source \in {"local", "none"} THEN "none" ELSE source

\* node.py 827-834: the source _load_tracks goes on with
EffectiveSource(query, source, strict) ==
    IF source = "local" THEN "none"
    ELSE IF source # "none" /\ ~strict /\ UrlMatch(Strip(query)) THEN "none"
    ELSE source

\* node.py 836-837: the query _load_tracks goes on with, which is the
\* identifier of the loadtracks request
LoadQuery(query, source, strict) ==
    LET s == EffectiveSource(query, source, strict) IN
    IF s # "none" THEN <<SourceValue(s), ":">> \o query ELSE query

\* the values the track API returns
None == [kind |-> "none"]
TrackOf(id) == [kind |-> "track", id |-> id]
ListOf(ts) == [kind |-> "list", tracks |-> ts]
PlaylistOf(ts, sel) == [kind |-> "playlist", tracks |-> ts, selectedTrack |-> sel]

\* tracks[:limit]
Take(ts, n) == SubSeq(ts, 1, IF n < Len(ts) THEN n ELSE Len(ts))

\* a search that forgets to flatten
NeverFlattened(res, flatten, limit) ==
    IF res.loadType = "PLAYLIST_LOADED"
    THEN PlaylistOf(res.tracks, res.selectedTrack)
    ELSE ListOf(IF limit # <<>> THEN Take(res.tracks, limit[1]) ELSE res.tracks)

\* node.py 840-854, 944-959: what search_tracks returns for a result that
\* is neither NO_MATCHES nor LOAD_FAILED
SearchTracksResult(res, flatten, limit) ==
    LET playlist == res.loadType = "PLAYLIST_LOADED" /\ ~flatten
        ts == IF limit # <<>> /\ ~playlist
              THEN Take(res.tracks, limit[1])
              ELSE res.tracks
    IN IF playlist THEN PlaylistOf(ts, res.selectedTrack) ELSE ListOf(ts)

\* Playlist.first (track.py 272-275)
First(p) == IF p.tracks = <<>> THEN None ELSE TrackOf(p.tracks[1])

\* Playlist.selected_track (track.py 277-286)
SelectedTrack(p) ==
    IF p.selectedTrack = -1 THEN None ELSE TrackOf(p.tracks[p.selectedTrack + 1])

\* a search_track that hands the playlist on
PlaylistUnresolved(res, resolve, prefer) ==
    SearchTracksResult(res, resolve /\ ~prefer, <<1>>)

\* node.py 1051-1069: what search_track returns
SearchTrackResult(res, resolve, prefer) ==
    LET result == SearchTracksResult(res, resolve /\ ~prefer, <<1>>) IN
    IF result.kind = "list"
    THEN IF result.tracks = <<>> THEN None ELSE TrackOf(result.tracks[1])
    ELSE IF prefer /\ result.kind = "playlist"
    THEN IF SelectedTrack(result) # None THEN SelectedTrack(result) ELSE First(result)
    ELSE result

\* the application calls search_tracks or search_track: _load_tracks up to
\* the await of the loadtracks request (node.py 825-839)
CallSearch(op, query, source, strict, flatten, limit, resolve, prefer) ==
    /\ call.pc = "idle"
    /\ call' = [op |-> op, query |-> query, source |-> source,
                strict |-> strict, flatten |-> flatten, limit |-> limit,
                resolve |-> resolve, prefer |-> prefer,
                pc |-> IF source = "spotify" THEN "done" ELSE "loading",
                requested |-> source # "spotify",
                identifier |-> IF source = "spotify" THEN <<>>
                               ELSE LoadQuery(query, source, strict),
                esource |-> IF source = "spotify" THEN source
                            ELSE EffectiveSource(query, source, strict),
                exit |-> IF source = "spotify" THEN "NotImplementedError" ELSE "",
                response |-> None, result |-> None, error |-> None]
    /\ UNCHANGED <<connVars, ws_resume_key, playerVars, sent, dispatched,
                   caller, poolVars, req, track, queue, server, filters, suspended>>

\* Node.search_tracks(query, source=, strict=, flatten_playlists=, limit=)
CallSearchTracks(query, source, strict, flatten, limit) ==
    CallSearch("search_tracks", query, source, strict, flatten, limit,
               FALSE, FALSE)

\* Node.search_track(query, source=, strict=, resolve_playlists=,
\* prefer_selected_track=) (node.py 1051-1059)
CallSearchTrack(query, source, strict, resolve, prefer) ==
    CallSearch("search_track", query, source, strict, resolve /\ ~prefer,
               <<1>>, resolve, prefer)

\* the node answers the loadtracks request: node.py 840-854, then the rest
\* of search_tracks (944-959) and of search_track (1061-1069)
LoadAnswer(res) ==
    /\ call.pc = "loading"
    /\ call' =
         IF res.loadType = "NO_MATCHES"
         THEN [call EXCEPT !.pc = "done", !.response = res,
                           !.exit = "NoMatches",
                           !.error = [query |-> call.identifier,
                                      source |-> call.esource]]
         ELSE IF res.loadType = "LOAD_FAILED"
         THEN [call EXCEPT !.pc = "done", !.response = res,
                           !.exit = "LoadFailed"]
         ELSE [call EXCEPT !.pc = "done", !.response = res,
                           !.exit = "return",
                           !.result =
                              IF call.op = "search_tracks"
                              THEN SearchTracksResult(res, call.flatten, call.limit)
                              ELSE SearchTrackResult(res, call.resolve, call.prefer)]
    /\ UNCHANGED <<connVars, ws_resume_key, playerVars, sent, dispatched,
                   caller, poolVars, req, track, queue, server, filters, suspended>>

\* the loadtracks request fails: ConnectionManager.request raises
LoadRequestFails ==
    /\ call.pc = "loading"
    /\ call' = [call EXCEPT !.pc = "done", !.exit = "HTTPException"]
    /\ UNCHANGED <<connVars, ws_resume_key, playerVars, sent, dispatched,
                   caller, poolVars, req, track, queue, server, filters, suspended>>

\* the application has seen how the call ended
CallReturns ==
    /\ call.pc = "done"
    /\ call' = NoCall
    /\ UNCHANGED <<connVars, ws_resume_key, playerVars, sent, dispatched,
                   caller, poolVars, req, track, queue, server, filters, suspended>>

SearchStep ==
    \/ \E q \in Queries, s \in Sources, strict \in BOOLEAN,
          f \in BOOLEAN, l \in Limits : CallSearchTracks(q, s, strict, f, l)
    \/ \E q \in Queries, s \in Sources, strict \in BOOLEAN,
          r \in BOOLEAN, p \in BOOLEAN : CallSearchTrack(q, s, strict, r, p)
    \/ \E res \in LoadResults : LoadAnswer(res)
    \/ LoadRequestFails
    \/ CallReturns

SearchSpec == Init /\ [][SearchStep]_vars

\* ------------------------------------------------- Node.fetch_tracks

\* the most ids passed to one fetch_tracks call
MaxIds == 3

\* base 64 track ids
EncodedTracks == {"id1", "id2"}

\* the application calls fetch_tracks(ids, atomic=...): node.py 1135-1138, up
\* to the first request (an atomic fetch of no id returns at once)
CallFetchTracks(ids, atomic) ==
    /\ call.pc = "idle"
    /\ req.pc = "idle"
    /\ call' = [op |-> "fetch_tracks", ids |-> ids, atomic |-> atomic,
                pc |-> IF atomic /\ ids = <<>> THEN "done" ELSE "fetch",
                todo |-> IF atomic THEN ids ELSE <<>>,
                decoded |-> <<>>,
                result |-> <<>>,
                exit |-> IF atomic /\ ids = <<>> THEN "return" ELSE ""]
    /\ UNCHANGED <<connVars, ws_resume_key, playerVars, sent, dispatched,
                   caller, poolVars, req, track, queue, server, filters, suspended>>

\* fetch_track's (node.py 1096) or fetch_tracks' (node.py 1146) call of
\* Node.request, which is ConnectionManager.request
FetchRequest ==
    /\ call.op = "fetch_tracks"
    /\ call.pc = "fetch"
    /\ CallRequest

\* node.py 1140-1141: the errors of a decode request an atomic fetch skips
Skipped(exit) == exit = "NotFound"

\* the request of fetch_tracks returned or raised: node.py 1139-1147
FetchResume ==
    /\ call.op = "fetch_tracks"
    /\ call.pc = "fetch"
    /\ req.pc = "done"
    /\ req' = NoRequest(req.max)
    /\ call' =
         IF call.atomic
         THEN LET id == Head(call.todo)
                  decoded == Append(call.decoded, req.exit = "return")
                  result == IF req.exit = "return"
                            THEN Append(call.result, <<id, req.result>>)
                            ELSE call.result
              IN IF req.exit # "return" /\ ~Skipped(req.exit)
                 THEN [call EXCEPT !.pc = "done", !.exit = req.exit,
                                   !.decoded = decoded]
                 ELSE [call EXCEPT !.todo = Tail(call.todo),
                                   !.decoded = decoded,
                                   !.result = result,
                                   !.pc = IF Tail(call.todo) = <<>>
                                          THEN "done" ELSE "fetch",
                                   !.exit = IF Tail(call.todo) = <<>>
                                            THEN "return" ELSE ""]
         ELSE IF req.exit = "return"
              THEN [call EXCEPT !.pc = "done", !.exit = "return",
                                !.result = [i \in 1..Len(call.ids) |->
                                               <<call.ids[i], req.result>>]]
              ELSE [call EXCEPT !.pc = "done", !.exit = req.exit]
    /\ UNCHANGED <<connVars, ws_resume_key, playerVars, sent, dispatched,
                   caller, poolVars, track, queue, server, filters, suspended>>

FetchStep ==
    \/ \E ids \in SeqsUpTo(EncodedTracks, MaxIds), a \in BOOLEAN :
          CallFetchTracks(ids, a)
    \/ FetchRequest
    \/ \E s \in Statuses, b \in Bodies : Respond(s, b)
    \/ RequestWake
    \/ FetchResume
    \/ CallReturns

FetchSpec == RequestInit /\ [][FetchStep]_vars

\* ---------------------- ConnectionManager.handle_message, any message

\* enums.OpCode, enums.EventType, enums.TrackEndReason (their values)
OpCodes == {"stats", "event", "playerUpdate"}
EventTypes ==
    {"TrackStartEvent", "TrackEndEvent", "TrackStuckEvent",
     "TrackExceptionEvent", "WebSocketClosedEvent"}
TrackEndReasons == {"FINISHED", "LOAD_FAILED", "STOPPED", "REPLACED", "CLEANUP"}

\* a reason after which nothing but a stop forbids the next track
MayStartNextUnlessStopped(reason) == reason # "STOPPED"

\* TrackEndReason.may_start_next (enums.py 215-218)
MayStartNext(reason) == reason = "FINISHED" \/ reason = "LOAD_FAILED"

\* the keys handle_message and the constructors it calls read
ProtocolKeys ==
    {"op", "players", "guildId", "state", "type", "track", "reason",
     "thresholdMs", "exception", "code", "byRemote"}
\* keys they never read
ExtraKeys == {"extra", "v"}

\* guildId as the node writes it, a string; one that is no number
WireGuilds == {"1", "2", "abc"}
Numeric(s) == s \in {"1", "2"}
\* int(data['guildId'])
ToInt(s) == IF s = "1" THEN 1 ELSE 2

\* the state of a playerUpdate: with its time in milliseconds, or without
WireStates == {[time |-> 1000], [position |-> 1000]}

\* the messages of the protocol, well formed or with an unknown op code, an
\* unknown event type, an unknown reason or a guildId that is no number
BaseMessages ==
    {[op |-> "stats", players |-> 1]}
    \cup [op : {"playerUpdate"}, guildId : WireGuilds, state : WireStates]
    \cup [op : {"event"}, guildId : WireGuilds, type : {"TrackEndEvent"},
          track : {"id1"}, reason : TrackEndReasons \cup {"BOGUS"}]
    \cup [op : {"event"}, guildId : WireGuilds,
          type : (EventTypes \ {"TrackEndEvent"}) \cup {"BogusEvent"},
          track : {"id1"}, reason : {"bye"}, thresholdMs : {1000},
          exception : {"e"}, code : {4006}, byRemote : {TRUE}]
    \cup [op : {"bogus"}, guildId : WireGuilds]

\* message m without the key k, and with the keys X added
Without(m, k) == [x \in DOMAIN m \ {k} |-> m[x]]
Plus(m, X) == [x \in DOMAIN m \cup X |-> IF x \in DOMAIN m THEN m[x] ELSE "?"]

\* the inbound messages: each of the above, or one lacking one of its keys,
\* with or without keys the protocol does not know
Messages ==
    {Plus(Without(m, k), X) :
        m \in BaseMessages, k \in ProtocolKeys, X \in SUBSET ExtraKeys}

\* `key in data`
Has(data, k) == k \in DOMAIN data

\* a handler that rejects a message with a key it does not know
InvalidOrUnknownKey(data) ==
    \/ ~Has(data, "op")
    \/ data.op \notin OpCodes
    \/ ~(DOMAIN data \subseteq ProtocolKeys)

\* node.py 252-259: no op code, or one OpCode does not have
Invalid(data) == ~Has(data, "op") \/ data.op \notin OpCodes

\* what handle_message does with a message
Outcome(exit, effect, guild, value, event, reconnect) ==
    [exit |-> exit, effect |-> effect, guild |-> guild, value |-> value,
     event |-> event, reconnect |-> reconnect]

Drops == Outcome("return", "none", 0, 0, None, FALSE)
Raises(exc) == Outcome(exc, "none", 0, 0, None, FALSE)

\* node.py 283-307: the event of an `event` message for the player of guild g
RouteEvent(data, g) ==
    IF ~Has(data, "type") THEN Raises("KeyError")
    ELSE IF data.type \notin EventTypes THEN Raises("ValueError")
    ELSE IF data.type = "WebSocketClosedEvent"
    THEN IF ~Has(data, "code") \/ ~Has(data, "reason")
         THEN Outcome("KeyError", "none", g, 0, None, TRUE)
         ELSE Outcome("return", "event", g, 0,
                      [name |-> "websocket_close", guild |-> g,
                       code |-> data.code, reason |-> data.reason,
                       by_remote |-> IF Has(data, "byRemote")
                                     THEN data.byRemote ELSE FALSE],
                      TRUE)
    ELSE IF ~Has(data, "track") THEN Raises("KeyError")
    ELSE IF data.type = "TrackStartEvent"
    THEN Outcome("return", "event", g, 0,
                 [name |-> "track_start", guild |-> g, track_id |-> data.track],
                 FALSE)
    ELSE IF data.type = "TrackEndEvent"
    THEN IF ~Has(data, "reason") THEN Raises("KeyError")
         ELSE IF data.reason \notin TrackEndReasons THEN Raises("ValueError")
         ELSE Outcome("return", "event", g, 0,
                      [name |-> "track_end", guild |-> g,
                       track_id |-> data.track, reason |-> data.reason,
                       may_start_next |-> MayStartNext(data.reason)],
                      FALSE)
    ELSE IF data.type = "TrackStuckEvent"
    THEN IF ~Has(data, "thresholdMs") THEN Raises("KeyError")
         ELSE Outcome("return", "event", g, 0,
                      [name |-> "track_stuck", guild |-> g,
                       track_id |-> data.track,
                       threshold_ms |-> data.thresholdMs],
                      FALSE)
    ELSE IF ~Has(data, "exception") THEN Raises("KeyError")
         ELSE Outcome("return", "event", g, 0,
                      [name |-> "track_exception", guild |-> g,
                       track_id |-> data.track, exception |-> data.exception],
                      FALSE)

\* node.py 251-309: handle_message(data) with the players `ps` registered
Route(data, ps) ==
    IF Invalid(data) THEN Drops
    ELSE IF data.op = "stats"
    THEN IF Has(data, "players")
         THEN Outcome("return", "stats", 0, data.players, None, FALSE)
         ELSE Raises("KeyError")
    ELSE IF ~Has(data, "guildId") THEN Drops
    ELSE IF ~Numeric(data.guildId) THEN Raises("ValueError")
    ELSE IF ~InSeq(ps, ToInt(data.guildId)) THEN Drops
    ELSE IF data.op = "playerUpdate"
    THEN IF ~Has(data, "state") THEN Raises("KeyError")
         ELSE IF ~Has(data.state, "time") THEN Raises("KeyError")
         ELSE Outcome("return", "update", ToInt(data.guildId),
                      data.state.time \div 1000, None, FALSE)
    ELSE RouteEvent(data, ToInt(data.guildId))

\* the node and the players after handle_message did `out`
StatsAfter(out) == IF out.effect = "stats" THEN out.value ELSE stats
StateAfter(out) ==
    IF out.effect = "update" THEN [state EXCEPT ![out.guild] = out.value]
    ELSE state
\* a handler that leaves the player's track as it is
TrackKept(out) == track
\* node.py 290-291: `player._track = None` for a TrackEndEvent
TrackAfter(out) ==
    IF out.effect = "event" /\ out.event.name = "track_end"
    THEN [track EXCEPT ![out.guild] = ""]
    ELSE track
EventsOf(out) == IF out.effect = "event" THEN <<out.event>> ELSE <<>>

\* a handle_message task runs on the message `data`
HandleData(data) ==
    /\ call.pc = "idle"
    /\ LET out == Route(data, players) IN
       /\ stats' = StatsAfter(out)
       /\ state' = StateAfter(out)
       /\ track' = TrackAfter(out)
       /\ dispatched' = EventsOf(out)
       /\ call' = [op |-> "handle_message", pc |-> "done", data |-> data,
                   exit |-> out.exit, reconnect |-> out.reconnect]
    /\ sent' = <<>>
    /\ UNCHANGED <<connVars, ws_resume_key, players, handlers, caller,
                   poolVars, req, queue, server, filters, suspended>>

HandleStep ==
    \/ \E g \in Guilds : GetPlayer(g)
    \/ \E m \in Messages : HandleData(m)
    \/ CallReturns

HandleSpec == Init /\ [][HandleStep]_vars

\* ------------------------------------------------------- magmatic.queue

\* add calls on one queue, get calls on one queue, the max_size of a bounded
\* queue, the tasks that call get_wait
MaxAdds == 3
MaxGets == 4
MaxSize == 2
MaxWaiters == 2
Waiters == 1..MaxWaiters

\* enums of queue.py: the two queue classes, LoopType
QueueKinds == {"Queue", "ConsumptionQueue"}
LoopTypes == {"none", "track", "queue"}

\* a task that never called get_wait
IdleWaiter == [pc |-> "idle", result |-> None]

\* Queue.__init__, ConsumptionQueue.__init__ and those of their waitable
\* subclasses: `q` is _queue, `index` is Queue._index, `current` is
\* ConsumptionQueue._current, `fut` is the state of _fut, max_size 0 is None.
\* History: `offered` counts the add calls, `added` lists the tracks that
\* were added, `got` lists what the get() calls returned, `raised` is the
\* exception of the last add, `waiters` the tasks calling get_wait
NewQueueOf(kind, waitable, loop_type, max_size) ==
    [kind |-> kind, waitable |-> waitable, loop_type |-> loop_type,
     max_size |-> max_size, q |-> <<>>, index |-> -1, current |-> None,
     fut |-> "none", offered |-> 0, added |-> <<>>, got |-> <<>>,
     raised |-> "", waiters |-> [w \in Waiters |-> IdleWaiter]]

\* queue.py 519-524 and 429-431: the `current` property
QCurrent(qu) ==
    IF qu.kind = "ConsumptionQueue" THEN qu.current
    ELSE IF qu.index < 0 \/ qu.index >= Len(qu.q) THEN None
    ELSE qu.q[qu.index + 1]

\* queue.py 117-123
IsEmpty(qu) == Len(qu.q) = 0
IsFull(qu) == qu.max_size # 0 /\ Len(qu.q) >= qu.max_size

\* a _skip that stops at the end of the queue whatever the loop type
QSkipNoWrap(qu) ==
    IF qu.index = -1 \/ QCurrent(qu) # None
    THEN [qu EXCEPT !.index = @ + 1] ELSE qu

\* queue.py 577-584: Queue._skip, the queue after it; it returns `current`
QSkip(qu) ==
    LET moved == IF qu.index = -1 \/ QCurrent(qu) # None
                 THEN [qu EXCEPT !.index = @ + 1] ELSE qu
    IN IF QCurrent(moved) = None /\ moved.loop_type = "queue"
       THEN [moved EXCEPT !.index = 0] ELSE moved

\* a _get that takes the next track whatever the loop type
QGetAlwaysSkips(qu) ==
    IF qu.kind = "ConsumptionQueue"
    THEN IF qu.q = <<>> THEN [after |-> qu, result |-> None]
         ELSE [after |-> [qu EXCEPT !.current = Head(qu.q), !.q = Tail(qu.q)],
               result |-> Head(qu.q)]
    ELSE [after |-> QSkip(qu), result |-> QCurrent(QSkip(qu))]

\* queue.py 567-571 and 441-446: _get, the queue after it and what it returns
QGet(qu) ==
    IF qu.kind = "ConsumptionQueue"
    THEN IF qu.q = <<>> THEN [after |-> qu, result |-> None]
         ELSE [after |-> [qu EXCEPT !.current = Head(qu.q), !.q = Tail(qu.q)],
               result |-> Head(qu.q)]
    ELSE IF qu.loop_type = "track" /\ qu.index # -1
    THEN [after |-> qu, result |-> QCurrent(qu)]
    ELSE [after |-> QSkip(qu), result |-> QCurrent(QSkip(qu))]

\* queue.py 140-148: get
Get(qu) == IF IsEmpty(qu) THEN [after |-> qu, result |-> None] ELSE QGet(qu)

\* queue.py 656-660: _dispatch resolves a pending future, which wakes the
\* tasks that await it
Dispatch(qu) ==
    IF qu.fut = "pending"
    THEN [qu EXCEPT !.fut = "done",
                    !.waiters = [w \in Waiters |->
                        IF @[w].pc = "waiting"
                        THEN [@[w] EXCEPT !.pc = "woken"] ELSE @[w]]]
    ELSE qu

\* queue.py 131-132 and 662-664: _add
QAdd(qu, t) ==
    LET appended == [qu EXCEPT !.q = Append(@, t), !.added = Append(@, t)]
    IN IF qu.waitable THEN Dispatch(appended) ELSE appended

\* the constructors
NewQueue(kind, waitable, loop_type, max_size) ==
    /\ queue = NoQueue
    /\ kind = "ConsumptionQueue" => loop_type = "none"
    /\ queue' = NewQueueOf(kind, waitable, loop_type, max_size)
    /\ UNCHANGED <<connVars, ws_resume_key, playerVars, sent, dispatched,
                   caller, poolVars, req, track, call, server, filters, suspended>>

\* queue.py 160-196: add(track), discard left False: QueueFull on a full
\* queue
AddTrack ==
    /\ queue # NoQueue
    /\ queue.offered < MaxAdds
    /\ LET t == TrackOf(queue.offered + 1)
           offered == [queue EXCEPT !.offered = @ + 1]
       IN queue' = IF IsFull(queue)
                   THEN [offered EXCEPT !.raised = "QueueFull"]
                   ELSE [QAdd(offered, t) EXCEPT !.raised = ""]
    /\ UNCHANGED <<connVars, ws_resume_key, playerVars, sent, dispatched,
                   caller, poolVars, req, track, call, server, filters, suspended>>

\* queue.py 140-148: a call of get()
CallGet ==
    /\ queue # NoQueue
    /\ Len(queue.got) < MaxGets
    /\ LET r == Get(queue)
       IN queue' = [r.after EXCEPT !.got = Append(@, r.result)]
    /\ UNCHANGED <<connVars, ws_resume_key, playerVars, sent, dispatched,
                   caller, poolVars, req, track, call, server, filters, suspended>>

\* queue.py 698-713 and 684-688: task w calls get_wait(), which returns the
\* track get() gave or awaits the future, a new one unless one is pending
CallGetWait(w) ==
    /\ queue # NoQueue
    /\ queue.waitable
    /\ queue.waiters[w].pc \in {"idle", "returned"}
    /\ LET r == Get(queue)
       IN queue' = IF r.result # None
                   THEN [r.after EXCEPT
                            !.waiters[w] = [pc |-> "returned",
                                            result |-> r.result]]
                   ELSE [r.after EXCEPT
                            !.fut = "pending",
                            !.waiters[w] = [pc |-> "waiting", result |-> None]]
    /\ UNCHANGED <<connVars, ws_resume_key, playerVars, sent, dispatched,
                   caller, poolVars, req, track, call, server, filters, suspended>>

\* queue.py 694-696: task w resumes in _start_wait after the future was
\* resolved: `result = method()`, `assert result is not None`
WaitResume(w) ==
    /\ queue # NoQueue
    /\ queue.waiters[w].pc = "woken"
    /\ LET r == Get(queue)
       IN queue' = [r.after EXCEPT
                       !.waiters[w] =
                           IF r.result = None
                           THEN [pc |-> "AssertionError", result |-> None]
                           ELSE [pc |-> "returned", result |-> r.result]]
    /\ UNCHANGED <<connVars, ws_resume_key, playerVars, sent, dispatched,
                   caller, poolVars, req, track, call, server, filters, suspended>>

QueueStep ==
    \/ \E kind \in QueueKinds, waitable \in BOOLEAN, loop_type \in LoopTypes,
          max_size \in {0, MaxSize} :
          NewQueue(kind, waitable, loop_type, max_size)
    \/ AddTrack
    \/ CallGet
    \/ \E w \in Waiters : CallGetWait(w)
    \/ \E w \in Waiters : WaitResume(w)

QueueSpec == Init /\ [][QueueStep]_vars

\* ------------------------------------- magmatic.queue, the other methods

\* tracks of one item (a track, or a playlist of the tracks), count of skip
MaxItem == 2
MaxCount == 2

\* the tracks of the next item of n tracks offered to the queue
ItemTracks(qu, n) == [i \in 1..n |-> TrackOf(qu.offered + i)]

\* deque[i] for a Python index i: counted from the end when negative
InRange(q, i) == -Len(q) <= i /\ i < Len(q)
At(q, i) == IF i >= 0 THEN q[i + 1] ELSE q[Len(q) + i + 1]

\* deque.insert(i, t), i >= 0: at the end when i is past it
InsertAt(q, i, t) ==
    LET k == IF i > Len(q) THEN Len(q) ELSE i
    IN SubSeq(q, 1, k) \o <<t>> \o SubSeq(q, k + 1, Len(q))

\* del deque[i], 0 <= i < len
DeleteAt(q, i) == SubSeq(q, 1, i) \o SubSeq(q, i + 2, Len(q))

\* queue.py 543-550 and 433-435: the up_next property
UpNext(qu) ==
    IF qu.kind = "ConsumptionQueue"
    THEN IF IsEmpty(qu) THEN None ELSE qu.q[1]
    ELSE IF qu.loop_type = "track" THEN QCurrent(qu)
    ELSE IF InRange(qu.q, qu.index + 1) THEN At(qu.q, qu.index + 1)
    ELSE IF qu.loop_type = "queue" /\ ~IsEmpty(qu) THEN qu.q[1]
    ELSE None

\* queue.py 128-129 and 577-584: one _skip, which for a ConsumptionQueue
\* is _get
SkipOnce(qu) ==
    IF qu.kind = "ConsumptionQueue" THEN QGet(qu)
    ELSE [after |-> QSkip(qu), result |-> QCurrent(QSkip(qu))]

\* queue.py 277-300: skip(count)
RECURSIVE SkipTimes(_, _)
SkipTimes(qu, n) ==
    IF n <= 1 THEN SkipOnce(qu) ELSE SkipTimes(SkipOnce(qu).after, n - 1)
Skip(qu, count) ==
    IF IsEmpty(qu) THEN [after |-> qu, result |-> None]
    ELSE SkipTimes(qu, count)

\* queue.py 185-196: the loop of add over the tracks of the item; _free
\* pops the track enqueued last
RECURSIVE AddAll(_, _, _, _)
AddAll(qu, tracks, discard, discarded) ==
    IF tracks = <<>>
    THEN [after |-> qu, exit |-> "return", discarded |-> discarded]
    ELSE IF IsFull(qu) /\ ~discard
    THEN [after |-> qu, exit |-> "QueueFull", discarded |-> discarded]
    ELSE IF IsFull(qu)
    THEN AddAll(QAdd([qu EXCEPT !.q = SubSeq(@, 1, Len(@) - 1)], Head(tracks)),
                Tail(tracks), discard,
                Append(discarded, qu.q[Len(qu.q)]))
    ELSE AddAll(QAdd(qu, Head(tracks)), Tail(tracks), discard, discarded)

\* queue.py 573-575 and 134-135: _insert; that of Queue moves the pointer
\* and does not call the one of BaseQueue
QInsertOne(qu, i, t) ==
    IF qu.kind = "ConsumptionQueue" THEN [qu EXCEPT !.q = InsertAt(@, i, t)]
    ELSE [qu EXCEPT !.index = IF i <= qu.index THEN @ + 1 ELSE @]

\* queue.py 302-318 and 666-668: insert(index, item)
RECURSIVE InsertAll(_, _, _)
InsertAll(qu, i, tracks) ==
    IF tracks = <<>> THEN qu
    ELSE LET one == QInsertOne(qu, i, Head(tracks))
         IN InsertAll(IF qu.waitable THEN Dispatch(one) ELSE one,
                      i + 1, Tail(tracks))

\* queue.py 150-158: pop
Pop(qu) ==
    IF IsEmpty(qu) THEN [after |-> qu, result |-> None]
    ELSE [after |-> [qu EXCEPT !.q = SubSeq(@, 1, Len(@) - 1)],
          result |-> qu.q[Len(qu.q)]]

\* queue.py 596-603 and 233-262: remove_index(index)
RemoveIndex(qu, index) ==
    LET moved == IF qu.kind = "Queue" /\ index < qu.index
                 THEN [qu EXCEPT !.index = @ - 1] ELSE qu
        i == IF index < 0 THEN index + Len(qu.q) ELSE index
    IN IF i < 0 \/ i >= Len(qu.q)
       THEN [after |-> moved, exit |-> "IndexError", result |-> None]
       ELSE [after |-> [moved EXCEPT !.q = DeleteAt(@, i)],
             exit |-> "return", result |-> qu.q[i + 1]]

\* queue.py 625-634: shift, `for _ in range(self._index - 1): popleft()`
Shift(qu) ==
    LET n == IF qu.index - 1 > 0 THEN qu.index - 1 ELSE 0
    IN IF n > Len(qu.q)
       THEN [after |-> [qu EXCEPT !.q = <<>>], exit |-> "IndexError"]
       ELSE [after |-> [qu EXCEPT !.q = SubSeq(@, n + 1, Len(@)), !.index = 0],
             exit |-> "return"]

\* queue.py 640-644, 535-541, 586-594 and 448-451: copy; that of Queue sets
\* current_index of the new queue, which is jump_to, before it has tracks
Copy(qu) ==
    LET new == NewQueueOf(qu.kind, qu.waitable, qu.loop_type, qu.max_size)
    IN IF qu.kind = "ConsumptionQueue"
       THEN [exit |-> "return", new |-> [new EXCEPT !.q = qu.q]]
       ELSE LET jumped == [new EXCEPT !.index = qu.index]
            IN IF QCurrent(jumped) = None
               THEN [exit |-> "IndexError", new |-> NoQueue]
               ELSE [exit |-> "return", new |-> [jumped EXCEPT !.q = qu.q]]

\* a finished call of a method of the queue
Called(op, arg, exit, result) ==
    [op |-> op, pc |-> "done", arg |-> arg, exit |-> exit, result |-> result]

\* add(item, discard=discard) of an item of n tracks
AddItem(n, discard) ==
    /\ queue # NoQueue
    /\ call.pc = "idle"
    /\ queue.offered + n <= MaxAdds
    /\ LET tracks == ItemTracks(queue, n)
           r == AddAll([queue EXCEPT !.offered = @ + n], tracks, discard, <<>>)
       IN /\ queue' = [r.after EXCEPT
                          !.raised = IF r.exit = "return" THEN "" ELSE r.exit]
          /\ call' = Called("add", [tracks |-> tracks, discard |-> discard],
                            r.exit, r.discarded)
    /\ UNCHANGED <<connVars, ws_resume_key, playerVars, sent, dispatched,
                   caller, poolVars, req, track, server, filters, suspended>>

\* skip(count)
CallSkip(count) ==
    /\ queue # NoQueue
    /\ call.pc = "idle"
    /\ LET r == Skip(queue, count)
       IN /\ queue' = r.after
          /\ call' = Called("skip", count, "return", r.result)
    /\ UNCHANGED <<connVars, ws_resume_key, playerVars, sent, dispatched,
                   caller, poolVars, req, track, server, filters, suspended>>

\* insert(index, item) of an item of n tracks
CallInsert(index, n) ==
    /\ queue # NoQueue
    /\ call.pc = "idle"
    /\ queue.offered + n <= MaxAdds
    /\ LET tracks == ItemTracks(queue, n)
       IN /\ queue' = InsertAll([queue EXCEPT !.offered = @ + n], index, tracks)
          /\ call' = Called("insert", [index |-> index, tracks |-> tracks],
                            "return", None)
    /\ UNCHANGED <<connVars, ws_resume_key, playerVars, sent, dispatched,
                   caller, poolVars, req, track, server, filters, suspended>>

\* pop()
CallPop ==
    /\ queue # NoQueue
    /\ call.pc = "idle"
    /\ LET r == Pop(queue)
       IN /\ queue' = r.after
          /\ call' = Called("pop", None, "return", r.result)
    /\ UNCHANGED <<connVars, ws_resume_key, playerVars, sent, dispatched,
                   caller, poolVars, req, track, server, filters, suspended>>

\* remove_index(index)
CallRemoveIndex(index) ==
    /\ queue # NoQueue
    /\ call.pc = "idle"
    /\ LET r == RemoveIndex(queue, index)
       IN /\ queue' = r.after
          /\ call' = Called("remove_index", index, r.exit, r.result)
    /\ UNCHANGED <<connVars, ws_resume_key, playerVars, sent, dispatched,
                   caller, poolVars, req, track, server, filters, suspended>>

\* Queue.shift()
CallShift ==
    /\ queue # NoQueue
    /\ queue.kind = "Queue"
    /\ call.pc = "idle"
    /\ LET r == Shift(queue)
       IN /\ queue' = r.after
          /\ call' = Called("shift", None, r.exit, None)
    /\ UNCHANGED <<connVars, ws_resume_key, playerVars, sent, dispatched,
                   caller, poolVars, req, track, server, filters, suspended>>

\* copy()
CallCopy ==
    /\ queue # NoQueue
    /\ call.pc = "idle"
    /\ LET r == Copy(queue)
       IN call' = Called("copy", None, r.exit, r.new)
    /\ UNCHANGED <<connVars, ws_resume_key, playerVars, sent, dispatched,
                   caller, poolVars, req, track, queue, server, filters, suspended>>

QueueOpsStep ==
    \/ \E kind \in QueueKinds, loop_type \in LoopTypes,
          max_size \in {0, MaxSize} :
          NewQueue(kind, FALSE, loop_type, max_size)
    \/ \E n \in 1..MaxItem, discard \in BOOLEAN : AddItem(n, discard)
    \/ CallGet
    \/ \E count \in 1..MaxCount : CallSkip(count)
    \/ \E index \in 0..MaxSize, n \in 1..MaxItem : CallInsert(index, n)
    \/ CallPop
    \/ \E index \in -1..MaxSize : CallRemoveIndex(index)
    \/ CallShift
    \/ CallCopy
    \/ CallReturns

QueueOpsSpec == Init /\ [][QueueOpsStep]_vars

\* ----------------------------------------------------------- Player.play

\* events not handled yet
MaxEvents == 3

\* an optional argument is <<>> (None) or <<value>>; seconds, volume
Starts == {<<>>, <<-1>>, <<1>>}
Ends == {<<>>, <<0>>, <<1>>, <<2>>}
Volumes == {<<>>, <<-1>>, <<1000>>, <<1001>>}

\* the guilds whose players play
PlayGuilds == {1}

\* str(guild_id)
ToStr(g) == IF g = 1 THEN "1" ELSE "2"

\* player.py 224-226: is_playing, `connected` being is_connected()
IsPlaying(g, connected) == connected /\ track[g] # ""

\* player.py 465-470: the checks of start and end that raise ValueError
BadTimes(start, end) ==
    /\ start # <<>>
    /\ \/ start[1] < 0
       \/ end # <<>> /\ start[1] < end[1]

\* player.py 472-474
BadVolume(volume) == volume # <<>> /\ ~(0 <= volume[1] /\ volume[1] <= 1000)

\* node.py 374-400: the play command of send_play_track
PlayFrame(g, t, start, end, volume, replace) ==
    [op |-> "play", guildId |-> ToStr(g), track |-> t,
     startTime |-> IF start = <<>> THEN 0 ELSE start[1] * 1000,
     endTime |-> IF end = <<>> THEN <<>> ELSE <<end[1] * 1000>>,
     volume |-> volume, noReplace |-> ~replace, pause |-> FALSE]

\* the events of the Lavalink server
TrackEndOf(g, t, reason) ==
    [op |-> "event", guildId |-> ToStr(g), type |-> "TrackEndEvent",
     track |-> t, reason |-> reason]
TrackStartOf(g, t) ==
    [op |-> "event", guildId |-> ToStr(g), type |-> "TrackStartEvent",
     track |-> t]

\* the Lavalink server takes a play command: it keeps its track when it has
\* one and the command says noReplace
ServerKeeps(g, replace) == ~replace /\ server[g] # ""

\* the events it then emits, in the orders they can reach their handlers
ServerEvents(g, t, replace) ==
    IF ServerKeeps(g, replace) THEN {<<>>}
    ELSE IF server[g] = "" THEN {<<TrackStartOf(g, t)>>}
    ELSE {<<TrackEndOf(g, server[g], "REPLACED"), TrackStartOf(g, t)>>,
          <<TrackStartOf(g, t), TrackEndOf(g, server[g], "REPLACED")>>}

\* the call play(track, ...) ended with `exit` before it wrote a frame
PlayEnds(c, exit) ==
    /\ call' = [c EXCEPT !.pc = "done", !.exit = exit]
    /\ sent' = <<>>
    /\ UNCHANGED <<handlers, server, filters, suspended>>

\* player.py 458-486 and node.py 349-364: play up to the await in send; the
\* server takes the command and its events set out for their handlers
CallPlay(g, t, start, end, volume, replace, connected) ==
    /\ call.pc = "idle"
    /\ InSeq(players, g)
    /\ Len(handlers) + 2 <= MaxEvents
    /\ LET c == [op |-> "play", pc |-> "sent", guild |-> g, track |-> t,
                 start |-> start, end |-> end, volume |-> volume,
                 replace |-> replace, connected |-> connected, exit |-> "",
                 replaced |-> IF ServerKeeps(g, replace) THEN "" ELSE server[g]]
       IN /\ state' = IF connected /\ (replace \/ ~IsPlaying(g, connected))
                      THEN [state EXCEPT ![g] = 0] ELSE state
          /\ IF ~connected THEN PlayEnds(c, "NotConnected")
             ELSE IF BadTimes(start, end) \/ BadVolume(volume)
             THEN PlayEnds(c, "ValueError")
             ELSE IF ws = 0 THEN PlayEnds(c, "RuntimeError")
             ELSE IF ws \notin wsOpen THEN PlayEnds(c, "ConnectionResetError")
             ELSE /\ call' = c
                  /\ sent' = <<PlayFrame(g, t, start, end, volume, replace)>>
                  /\ server' = IF ServerKeeps(g, replace) THEN server
                               ELSE [server EXCEPT ![g] = t]
                  /\ \E events \in ServerEvents(g, t, replace) :
                        handlers' = handlers \o events
    /\ dispatched' = <<>>
    /\ UNCHANGED <<connVars, ws_resume_key, players, stats, caller, poolVars,
                   req, track, queue, filters, suspended>>

\* player.py 493-496: play resumes after the frame was written
PlayResume ==
    /\ call.op = "play"
    /\ call.pc = "sent"
    /\ track' = IF ~call.replace /\ IsPlaying(call.guild, call.connected)
                THEN track
                ELSE [track EXCEPT ![call.guild] = call.track]
    /\ call' = [call EXCEPT !.pc = "done", !.exit = "return"]
    /\ Quiet
    /\ UNCHANGED <<connVars, ws_resume_key, playerVars, caller, poolVars, req,
                   queue, server, filters, suspended>>

\* node.py 251-309: the handle_message task of the oldest event runs
HandleEvent ==
    /\ handlers # <<>>
    /\ LET out == Route(Head(handlers), players) IN
       /\ stats' = StatsAfter(out)
       /\ state' = StateAfter(out)
       /\ track' = TrackAfter(out)
       /\ dispatched' = EventsOf(out)
    /\ handlers' = Tail(handlers)
    /\ sent' = <<>>
    /\ UNCHANGED <<connVars, ws_resume_key, players, caller, poolVars, req,
                   call, queue, server, filters, suspended>>

\* the track the server plays for guild g comes to its end
TrackFinishes(g) ==
    /\ server[g] # ""
    /\ Len(handlers) < MaxEvents
    /\ server' = [server EXCEPT ![g] = ""]
    /\ handlers' = Append(handlers, TrackEndOf(g, server[g], "FINISHED"))
    /\ Quiet
    /\ UNCHANGED <<connVars, ws_resume_key, players, state, stats, caller,
                   poolVars, req, track, call, queue, filters, suspended>>

\* a node that is connected, its listener receiving, or one that never was
PlayInit ==
    /\ \/ /\ ws = 1
          /\ wsOpen = {1}
          /\ wsCount = 1
          /\ listener = 1
          /\ tasks = [t \in TaskIds |->
                        IF t = 1 THEN [NewTask EXCEPT !.pc = "recv", !.iter = 1]
                        ELSE NoTask]
       \/ /\ ws = 0
          /\ wsOpen = {}
          /\ wsCount = 0
          /\ listener = 0
          /\ tasks = [t \in TaskIds |-> NoTask]
    /\ keep_alive = TRUE
    /\ ws_resume_key = FALSE
    /\ players = <<>>
    /\ state = [g \in Guilds |-> 0]
    /\ stats = 0
    /\ handlers = <<>>
    /\ sent = <<>>
    /\ dispatched = <<>>
    /\ caller = Idle("", "")
    /\ identifier = "MAIN"
    /\ nodes = [k \in Identifiers |-> IF k = "MAIN" THEN 1 ELSE 0]
    /\ cleanup = TRUE
    /\ req = NoRequest(REQUEST_MAX_TRIES)
    /\ track = [g \in Guilds |-> ""]
    /\ call = NoCall
    /\ queue = NoQueue
    /\ server = [g \in Guilds |-> ""]
    /\ filters = NoFilters
    /\ suspended = <<>>

PlayStep ==
    \/ \E g \in PlayGuilds : GetPlayer(g)
    \/ \E g \in PlayGuilds, t \in EncodedTracks, start \in Starts, end \in Ends,
          volume \in Volumes, replace \in BOOLEAN, connected \in BOOLEAN :
          CallPlay(g, t, start, end, volume, replace, connected)
    \/ PlayResume
    \/ HandleEvent
    \/ \E g \in PlayGuilds : TrackFinishes(g)
    \/ CallReturns

PlaySpec == PlayInit /\ [][PlayStep]_vars

\* ------------------------------------------------- filters.FilterSink

\* the settings a filter object is made with; 1 is the setting of a filter
\* made without arguments (VolumeFilter(), Equalizer(), TimescaleFilter())
MaxFilter == 2
FilterSettings == 1..MaxFilter

\* the filter objects: their class, by its key, and their setting
Filters == [kind : FilterKinds, setting : FilterSettings]

\* what a property of the sink can be assigned: a filter object, or a float
PropertyValues == Filters \cup [kind : {"float"}, setting : FilterSettings]

\* the arguments of add and overwrite: up to two filter objects
FilterArgs ==
    {<<>>} \cup {<<f>> : f \in Filters} \cup {<<f, g>> : f, g \in Filters}

\* BaseFilter.to_dict of the filter of class `kind` with setting `v`
Payload(kind, v) == <<kind, v>>

\* FilterSink._default (filters.py 518-522): the filters made without
\* arguments
DefaultSetting(kind) == 1

\* the getter of a property of the sink: volume (filters.py 528-539) reads
\* `self._filters.get('volume')`; equalizer and timescale are made by
\* filter_property, whose getter (filters.py 472-475) asserts
\* `isinstance(resolved, cls)` on what get(key) returned
Getter(key, fl) ==
    IF key # "volume" /\ fl[key] = 0
    THEN [exit |-> "AssertionError", result |-> 0]
    ELSE [exit |-> "return", result |-> fl[key]]

\* the setters (filters.py 541-548, 479-483): the exit and the sink after
\* `sink.<key> = value`
Setter(key, value, fl) ==
    IF key = "volume" /\ value.kind = "float"
    THEN [exit |-> "return", filters |-> [fl EXCEPT ![key] = value.setting]]
    ELSE IF value.kind # key
    THEN [exit |-> "TypeError", filters |-> fl]
    ELSE [exit |-> "return", filters |-> [fl EXCEPT ![key] = value.setting]]

\* the deleters (filters.py 550-552, 485-486): `del self._filters[key]`
Deleter(key, fl) ==
    IF fl[key] = 0
    THEN [exit |-> "KeyError", filters |-> fl]
    ELSE [exit |-> "return", filters |-> [fl EXCEPT ![key] = 0]]

\* FilterSink.add(*fs) (filters.py 594-598): each filter is stored under
\* the key of its class
RECURSIVE AddFilters(_, _)
AddFilters(fl, fs) ==
    IF fs = <<>> THEN fl
    ELSE AddFilters([fl EXCEPT ![Head(fs).kind] = Head(fs).setting], Tail(fs))

\* FilterSink.remove(*classes) (filters.py 618-628): a class the sink does
\* not hold passes silently
RemoveFilters(fl, kinds) == [k \in FilterKinds |-> IF k \in kinds THEN 0 ELSE fl[k]]

\* FilterSink.to_dict (filters.py 663-670): the payload of every default,
\* overridden by the payloads of the filters held
ToDict(fl) ==
    [k \in FilterKinds |->
        IF fl[k] = 0 THEN Payload(k, DefaultSetting(k)) ELSE Payload(k, fl[k])]

\* one operation of the application on its sink
SinkCalled(op, key, exit, result) ==
    [op |-> op, pc |-> "done", key |-> key, exit |-> exit, result |-> result]

SinkAdd(fs) ==
    /\ call.pc = "idle"
    /\ filters' = AddFilters(filters, fs)
    /\ call' = SinkCalled("add", "", "return", 0)
    /\ UNCHANGED <<connVars, ws_resume_key, playerVars, sent, dispatched,
                   caller, poolVars, req, track, queue, server, suspended>>

SinkRemove(kinds) ==
    /\ call.pc = "idle"
    /\ filters' = RemoveFilters(filters, kinds)
    /\ call' = SinkCalled("remove", "", "return", 0)
    /\ UNCHANGED <<connVars, ws_resume_key, playerVars, sent, dispatched,
                   caller, poolVars, req, track, queue, server, suspended>>

\* FilterSink.overwrite (filters.py 646-647): clear(), then add(*fs)
SinkOverwrite(fs) ==
    /\ call.pc = "idle"
    /\ filters' = AddFilters(NoFilters, fs)
    /\ call' = SinkCalled("overwrite", "", "return", 0)
    /\ UNCHANGED <<connVars, ws_resume_key, playerVars, sent, dispatched,
                   caller, poolVars, req, track, queue, server, suspended>>

\* FilterSink.clear (filters.py 649-651)
SinkClear ==
    /\ call.pc = "idle"
    /\ filters' = NoFilters
    /\ call' = SinkCalled("clear", "", "return", 0)
    /\ UNCHANGED <<connVars, ws_resume_key, playerVars, sent, dispatched,
                   caller, poolVars, req, track, queue, server, suspended>>

\* `sink.<key> = value`
SinkSet(key, value) ==
    /\ call.pc = "idle"
    /\ LET out == Setter(key, value, filters) IN
       /\ filters' = out.filters
       /\ call' = SinkCalled("set", key, out.exit, 0)
    /\ UNCHANGED <<connVars, ws_resume_key, playerVars, sent, dispatched,
                   caller, poolVars, req, track, queue, server, suspended>>

\* `del sink.<key>`
SinkDel(key) ==
    /\ call.pc = "idle"
    /\ LET out == Deleter(key, filters) IN
       /\ filters' = out.filters
       /\ call' = SinkCalled("del", key, out.exit, 0)
    /\ UNCHANGED <<connVars, ws_resume_key, playerVars, sent, dispatched,
                   caller, poolVars, req, track, queue, server, suspended>>

\* `sink.<key>` is read
SinkGet(key) ==
    /\ call.pc = "idle"
    /\ LET out == Getter(key, filters) IN
       call' = SinkCalled("get", key, out.exit, out.result)
    /\ UNCHANGED <<connVars, ws_resume_key, playerVars, sent, dispatched,
                   caller, poolVars, req, track, queue, server, filters,
                   suspended>>

\* `sink.to_dict()`
SinkToDict ==
    /\ call.pc = "idle"
    /\ call' = SinkCalled("to_dict", "", "return", ToDict(filters))
    /\ UNCHANGED <<connVars, ws_resume_key, playerVars, sent, dispatched,
                   caller, poolVars, req, track, queue, server, filters,
                   suspended>>

FilterStep ==
    \/ \E fs \in FilterArgs : SinkAdd(fs)
    \/ \E ks \in SUBSET FilterKinds : SinkRemove(ks)
    \/ \E fs \in FilterArgs : SinkOverwrite(fs)
    \/ SinkClear
    \/ \E k \in FilterKinds, v \in PropertyValues : SinkSet(k, v)
    \/ \E k \in FilterKinds : SinkDel(k)
    \/ \E k \in FilterKinds : SinkGet(k)
    \/ SinkToDict
    \/ CallReturns

FilterSpec == Init /\ [][FilterStep]_vars

\* ----------------------- ConnectionManager.listen and its handler tasks

\* frames received whose handle_message task has not run yet
MaxInbound == 2
\* handle_message tasks suspended in player.reconnect()
MaxSuspended == 1

\* the frames the node sends: a playerUpdate and a WebSocketClosedEvent for
\* each guild, a TrackEndEvent with each reason
ListenFrames ==
    [op : {"playerUpdate"}, guildId : {"1", "2"}, state : {[time |-> 1000]}]
    \cup [op : {"event"}, guildId : {"1", "2"}, type : {"WebSocketClosedEvent"},
          code : {4006}, reason : {"bye"}, byRemote : {TRUE}]
    \cup [op : {"event"}, guildId : {"1"}, type : {"TrackEndEvent"},
          track : {"id1"}, reason : TrackEndReasons]

\* node.py 323, 335, 347: a text frame arrives, `message.json(...)` decodes
\* it and the handle_message task of the message is created
Receive(t, m) ==
    /\ tasks[t].pc = "recv"
    /\ ~tasks[t].cancel
    /\ tasks[t].iter \in wsOpen
    /\ Len(handlers) < MaxInbound
    /\ handlers' = Append(handlers, m)
    /\ Quiet
    /\ UNCHANGED <<connVars, ws_resume_key, players, state, stats, caller,
                   poolVars, req, track, call, queue, server, filters,
                   suspended>>

\* node.py 347: a text frame that is no JSON document arrives; json()
\* raises JSONDecodeError inside listen, which catches nothing: the
\* exception ends the listener task
ReceiveMalformed(t) ==
    /\ tasks[t].pc = "recv"
    /\ ~tasks[t].cancel
    /\ tasks[t].iter \in wsOpen
    /\ tasks' = Done(tasks, t, "JSONDecodeError")
    /\ Quiet
    /\ UNCHANGED <<ws, wsOpen, wsCount, listener, keep_alive, ws_resume_key,
                   playerVars, caller, poolVars, req, track, call, queue,
                   server, filters, suspended>>

\* a handler that emits the event without a reconnect
ReconnectsNever(out) == FALSE

\* node.py 299-302: the handler reaches `await player.reconnect()`
Reconnects(out) == out.reconnect

\* node.py 251-309: the oldest handle_message task runs, to its end or to
\* the await of player.reconnect()
HandleBegin ==
    /\ handlers # <<>>
    /\ LET out == Route(Head(handlers), players) IN
       IF Reconnects(out)
       THEN /\ Len(suspended) < MaxSuspended
            /\ suspended' = Append(suspended, Head(handlers))
            /\ dispatched' = <<>>
            /\ UNCHANGED <<stats, state, track>>
       ELSE /\ stats' = StatsAfter(out)
            /\ state' = StateAfter(out)
            /\ track' = TrackAfter(out)
            /\ dispatched' = EventsOf(out)
            /\ UNCHANGED suspended
    /\ handlers' = Tail(handlers)
    /\ sent' = <<>>
    /\ UNCHANGED <<connVars, ws_resume_key, players, caller, poolVars, req,
                   call, queue, server, filters>>

\* node.py 302-309: player.reconnect() (player.py 343-354) returns to the
\* handler, which builds the event and dispatches it; or it raises and the
\* handler task ends with the exception
ReconnectEnds(i, ok) ==
    /\ i \in DOMAIN suspended
    /\ LET m == suspended[i]
           out == RouteEvent(m, ToInt(m.guildId)) IN
       dispatched' = IF ok THEN EventsOf(out) ELSE <<>>
    /\ suspended' = [j \in 1..(Len(suspended) - 1) |->
                        IF j < i THEN suspended[j] ELSE suspended[j + 1]]
    /\ sent' = <<>>
    /\ UNCHANGED <<connVars, ws_resume_key, playerVars, caller, poolVars, req,
                   track, call, queue, server, filters>>

\* a connected node whose listener receives; the players registered so far
\* play a track or none
ListenInit ==
    /\ ws = 1
    /\ wsOpen = {1}
    /\ wsCount = 1
    /\ listener = 1
    /\ tasks = [t \in TaskIds |->
                  IF t = 1 THEN [NewTask EXCEPT !.pc = "recv", !.iter = 1]
                  ELSE NoTask]
    /\ keep_alive = TRUE
    /\ ws_resume_key = FALSE
    /\ players \in {<<>>, <<1>>, <<1, 2>>}
    /\ state = [g \in Guilds |-> 0]
    /\ stats = 0
    /\ handlers = <<>>
    /\ sent = <<>>
    /\ dispatched = <<>>
    /\ caller = Idle("", "")
    /\ identifier = "MAIN"
    /\ nodes = [k \in Identifiers |-> IF k = "MAIN" THEN 1 ELSE 0]
    /\ cleanup = TRUE
    /\ req = NoRequest(REQUEST_MAX_TRIES)
    /\ track \in [Guilds -> {"", "id1"}]
    /\ \A g \in Guilds : track[g] # "" => InSeq(players, g)
    /\ call = NoCall
    /\ queue = NoQueue
    /\ server = track
    /\ filters = NoFilters
    /\ suspended = <<>>

ListenStep ==
    \/ \E g \in Guilds : GetPlayer(g)
    \/ \E t \in TaskIds, m \in ListenFrames : Receive(t, m)
    \/ \E t \in TaskIds : ReceiveMalformed(t)
    \/ HandleBegin
    \/ \E i \in 1..MaxSuspended, ok \in BOOLEAN : ReconnectEnds(i, ok)

ListenSpec == ListenInit /\ [][ListenStep]_vars

\* ------------------------------------- connect from two application tasks

\* a second application task calls ConnectionManager.connect(reconnect=...)
\* while the first may be inside a call of its own: node.py 200-205, up to
\* the await of ws_connect
OtherConnect(reconnect) ==
    /\ call.pc = "idle"
    /\ identifier # ""
    /\ IF ConnectReturnsEarly(reconnect)
       THEN /\ call' = [op |-> "connect", pc |-> "done",
                        reconnect |-> reconnect, exit |-> "return@202"]
            /\ UNCHANGED wsOpen
       ELSE /\ wsOpen' = IF IsConnected THEN CloseWs(wsOpen) ELSE wsOpen
            /\ call' = [op |-> "connect", pc |-> "connecting",
                        reconnect |-> reconnect, exit |-> ""]
    /\ Quiet
    /\ UNCHANGED <<ws, wsCount, listener, tasks, keep_alive, ws_resume_key,
                   playerVars, caller, poolVars, req, track, queue, server,
                   filters, suspended>>

\* the second task's ws_connect completes: node.py 207-239
OtherWsConnect(outcome) ==
    /\ call.op = "connect"
    /\ call.pc = "connecting"
    /\ IF outcome \in {"open", "closed"}
       THEN /\ wsCount < MaxConn
            /\ Established(outcome)
            /\ tasks' = SpawnListener(tasks)
            /\ AfterHandshake(outcome, FALSE)
            /\ call' = [call EXCEPT
                           !.pc = "done",
                           !.exit = IF outcome = "open" THEN "return@239"
                                    ELSE "return@234"]
       ELSE /\ call' = [call EXCEPT !.pc = "done",
                                    !.exit = ConnectRaises(outcome)]
            /\ Quiet
            /\ UNCHANGED <<ws, wsOpen, wsCount, listener, tasks>>
    /\ UNCHANGED <<keep_alive, ws_resume_key, playerVars, caller, poolVars,
                   req, track, queue, server, filters, suspended>>

\* two application tasks, the listener tasks and the remote node
ConcurrentStep ==
    \/ \E r \in BOOLEAN : CallConnect(r)
    \/ \E o \in WsConnectOutcomes : CallerWsConnect(o)
    \/ \E r \in BOOLEAN : CallDisconnect(r)
    \/ CallerClosed
    \/ \E r \in BOOLEAN : OtherConnect(r)
    \/ \E o \in WsConnectOutcomes : OtherWsConnect(o)
    \/ CallReturns
    \/ ListenerStep

ConcurrentSpec == Init /\ [][ConcurrentStep]_vars

\* ------------------------------------------------------------ properties

\* task t is a listener that nobody cancelled and that is still running
Running(t) == tasks[t].pc \notin {"none", "done"} /\ ~tasks[t].cancel

\* every listener task has ended or is cancelled
AllStopped == \A t \in TaskIds : ~Running(t)

\* C1: when the peer closes the websocket of a running listener, the
\* listener, with no action of the caller, goes to its backoff sleep (from
\* which it reconnects): it does not end
C1_PeerCloseReconnects ==
    [][\A t \in TaskIds :
          (/\ Running(t)
           /\ t = listener
           /\ tasks[t].pc = "recv"
           /\ tasks[t].iter \notin wsOpen
           /\ caller' = caller
           /\ tasks'[t] # tasks[t])
          => tasks'[t].pc = "sleep"]_vars

\* C2: a reconnect attempt of the listener that fails is retried after a
\* backoff sleep: the failure does not end the listener
C2_FailedReconnectRetried ==
    [][\A t \in TaskIds :
          (/\ Running(t)
           /\ tasks[t].pc = "connecting"
           /\ caller' = caller
           /\ wsCount' = wsCount
           /\ tasks'[t] # tasks[t])
          => tasks'[t].pc = "sleep"]_vars

\* C3: the first connect that fails raises AuthorizationFailure for a 401,
\* HandshakeFailure for another failed handshake and ConnectionFailure for
\* any other failure; no listener task exists afterwards and nothing is left
\* that would attempt to connect
C3_FirstConnectFailure ==
    [][\A o \in {"401", "handshake", "error"} :
          (wsCount = 0 /\ CallerWsConnect(o))
          => /\ caller'.pc = "idle"
             /\ caller'.exit = (CASE o = "401" -> "AuthorizationFailure"
                                  [] o = "handshake" -> "HandshakeFailure"
                                  [] OTHER -> "ConnectionFailure")
             /\ listener' = 0
             /\ ws' = 0
             /\ wsCount' = 0
             /\ \A t \in TaskIds : tasks'[t] = NoTask]_vars

C3_Witness ==
    /\ caller.op = "connect"
    /\ caller.exit = "AuthorizationFailure"
    /\ wsCount = 0

\* the caller's disconnect has returned and the caller has called nothing since
Disconnected ==
    /\ caller.op \in {"disconnect", "node_disconnect"}
    /\ caller.pc = "idle"
    /\ caller.exit = "return"

\* C4: once disconnect has returned, every listener task is cancelled or
\* ended and the websocket is closed; and as long as the caller calls nothing,
\* no websocket is established and no task starts a connect attempt
C4_DisconnectStops ==
    [][Disconnected'
       => /\ AllStopped'
          /\ ~IsConnected'
          /\ Disconnected
             => /\ wsCount' = wsCount
                /\ wsOpen' \subseteq wsOpen
                /\ \A t \in TaskIds :
                      tasks'[t].pc = "connecting" => tasks[t].pc = "connecting"]_vars

\* disconnect returned while a listener slept its backoff delay
C4_Witness ==
    /\ Disconnected
    /\ \E t \in TaskIds : tasks[t].pc = "sleep" /\ tasks[t].cancel

\* the listener ended on a message whose data is 1011
Stopped1011 == listener # 0 /\ tasks[listener].exit = "return@345"

\* C5: the listener that reads a message whose data is 1011 ends and the
\* websocket is closed; from then on no frame is handed to handle_message
\* and no websocket is established, except by a connect of the caller
C5_InternalErrorStops ==
    [][/\ \A t \in TaskIds :
             InternalError(t)
             => tasks'[t].pc = "done" /\ ~IsConnected' /\ AllStopped'
       /\ Stopped1011
          => /\ Len(handlers') <= Len(handlers)
             /\ wsCount' # wsCount => caller.pc = "connecting"
             /\ Stopped1011' => ~IsConnected' /\ AllStopped']_vars

C5_Witness == Stopped1011 /\ caller.pc = "idle" /\ players # <<>>

\* C6: Node.destroy never raises, whenever it is called; when it has
\* returned the listener is cancelled, the node has no player and the pool
\* does not hold the node
C6_DestroySafe ==
    (caller.op = "destroy" /\ caller.pc = "idle")
    => /\ caller.exit = "return"
       /\ AllStopped
       /\ players = <<>>
       /\ \A k \in Identifiers : nodes[k] # 1

\* C7: after Node.destroy or NodePool.destroy_node returned, no key of the
\* pool holds the node, however the node was registered
C7_DestroyedNodeAbsent ==
    (/\ caller.op \in {"destroy", "destroy_node"}
     /\ caller.pc = "idle"
     /\ caller.exit = "return")
    => \A k \in Identifiers : nodes[k] # 1

\* C8: connect(reconnect=False) on a connected manager changes nothing: the
\* websocket stays open and in place, the listener is neither cancelled nor
\* replaced, no frame is written and no event dispatched
C8_ConnectNoOp ==
    [][(IsConnected /\ CallConnect(FALSE))
       => /\ UNCHANGED <<connVars, ws_resume_key, playerVars, poolVars, server, filters, suspended>>
          /\ sent' = <<>>
          /\ dispatched' = <<>>
          /\ caller'.pc = "idle"]_vars

C8_Witness ==
    /\ caller.op = "connect"
    /\ caller.exit = "return@202"
    /\ ~caller.reconnect
    /\ IsConnected
    /\ Running(listener)

\* C9: an outbound command sent with no live connection raises NotConnected
\* and writes nothing
C9_SendNotConnected ==
    [][\A c \in Commands :
          (~IsConnected /\ CallSend(c))
          => caller'.exit = "NotConnected" /\ sent' = <<>>]_vars

\* C10: request makes at most REQUEST_MAX_TRIES attempts; it returns the
\* body of the first OK response and attempts nothing after it; if no attempt
\* is OK it raises NotFound when the last status is 404 and HTTPException
\* otherwise, with the last response
C10_RequestAttempts ==
    /\ req.tries <= req.max
    /\ Len(req.log) <= req.tries
    /\ req.pc = "done"
       => LET n == Len(req.log) IN
          /\ n = req.tries
          /\ n >= 1
          /\ \A j \in 1..(n - 1) : ~Ok(req.log[j].status)
          /\ IF Ok(req.log[n].status)
             THEN req.exit = "return" /\ req.result = req.log[n].body
             ELSE /\ n = req.max
                  /\ req.exit = (IF req.log[n].status = 404
                                 THEN "NotFound" ELSE "HTTPException")
                  /\ req.response = req.log[n]

\* a budget of 3 and the statuses 500, 500, 200: the third body is returned
C10_Witness ==
    /\ req.pc = "done"
    /\ req.max = 3
    /\ Len(req.log) = 3
    /\ req.log[1].status = 500
    /\ req.log[2].status = 500
    /\ req.log[3] = [status |-> 200, body |-> "b2"]
    /\ req.exit = "return"
    /\ req.result = "b2"

\* a search call that has gone past the first lines of _load_tracks
Searching == call.op \in {"search_tracks", "search_track"}

\* C11: the identifier _load_tracks requests is the query prefixed with the
\* source's value when strict is set and the source is none of local and
\* spotify; the raw query when strict is not set and the query, stripped of
\* the surrounding '<' and '>', matches the URL pattern; the raw query when
\* the source is None or local; with the source spotify the call fails and
\* requests nothing
C11_LoadIdentifier ==
    Searching
    => /\ call.source = "spotify"
          => call.exit = "NotImplementedError" /\ ~call.requested
       /\ call.source # "spotify"
          => /\ call.requested
             /\ call.source \in {"none", "local"}
                => call.identifier = call.query
             /\ (call.source \notin {"none", "local"} /\ call.strict)
                => call.identifier
                   = <<SourceValue(call.source), ":">> \o call.query
             /\ (~call.strict /\ UrlMatch(Strip(call.query)))
                => call.identifier = call.query

\* a bracketed URL searched on YouTube without strict
C11_Witness ==
    /\ Searching
    /\ call.source = "youtube"
    /\ ~call.strict
    /\ call.query = <<"<", "http://", "x">>
    /\ call.identifier = call.query
    /\ call.pc = "loading"

\* C12: a load answered with NO_MATCHES fails with a NoMatches error that
\* carries the query and the source the caller passed
C12_NoMatchesCarriesQuery ==
    (Searching /\ call.exit = "NoMatches")
    => call.error = [query |-> call.query, source |-> call.source]

\* C14: search_track without resolve_playlists returns the playlist itself
\* whenever a playlist was loaded, whatever prefer_selected_track is
C14_PlaylistReturned ==
    (/\ call.op = "search_track"
     /\ ~call.resolve
     /\ call.exit = "return"
     /\ call.response.loadType = "PLAYLIST_LOADED")
    => call.result
       = PlaylistOf(call.response.tracks, call.response.selectedTrack)

\* C15: search_track with resolve_playlists never returns a playlist: of a
\* loaded playlist it returns, with prefer_selected_track, the selected
\* track, the first track if none is selected, None if there is no track;
\* of a track list it returns the first track or None
C15_PlaylistResolved ==
    (call.op = "search_track" /\ call.resolve /\ call.exit = "return")
    => LET r == call.response
           first == IF r.tracks = <<>> THEN None ELSE TrackOf(r.tracks[1])
       IN /\ call.result.kind # "playlist"
          /\ (r.loadType = "PLAYLIST_LOADED" /\ call.prefer)
             => call.result = IF r.selectedTrack # -1
                              THEN TrackOf(r.tracks[r.selectedTrack + 1])
                              ELSE first
          /\ r.loadType # "PLAYLIST_LOADED" => call.result = first

\* a playlist whose second track is selected
C15_Witness ==
    /\ call.op = "search_track"
    /\ call.resolve
    /\ call.prefer
    /\ call.exit = "return"
    /\ call.response.loadType = "PLAYLIST_LOADED"
    /\ call.response.selectedTrack = 1
    /\ call.result = TrackOf(2)

C13_AtomicFetchNeverRaises ==
    (call.op = "fetch_tracks" /\ call.atomic /\ call.pc = "done")
    => /\ call.exit = "return"
       /\ Len(call.decoded) = Len(call.ids)
       /\ LET ok == {i \in 1..Len(call.ids) : call.decoded[i]} IN
          /\ Len(call.result) = Cardinality(ok)
          /\ \A j \in 1..Len(call.result) :
                \E i \in ok :
                   /\ call.result[j][1] = call.ids[i]
                   /\ Cardinality({k \in ok : k < i}) = j - 1

\* C17: keys the protocol does not read never change what handling a
\* message does: the step that handles a message changes the node's stats
\* and the players' state, emits the event and ends the way handling the
\* message without those keys does from the same state
C17_UnknownKeysIgnored ==
    [][(call.pc = "idle" /\ call'.op = "handle_message")
       => LET m == [k \in DOMAIN call'.data \cap ProtocolKeys |-> call'.data[k]]
              out == Route(m, players)
          IN /\ stats' = StatsAfter(out)
             /\ state' = StateAfter(out)
             /\ track' = TrackAfter(out)
             /\ dispatched' = EventsOf(out)
             /\ call'.exit = out.exit
             /\ call'.reconnect = out.reconnect
             /\ players' = players]_vars

\* a playerUpdate with two unknown keys has updated the player
C17_Witness ==
    /\ call.op = "handle_message"
    /\ ExtraKeys \subseteq DOMAIN call.data
    /\ Has(call.data, "op")
    /\ call.data.op = "playerUpdate"
    /\ call.exit = "return"
    /\ InSeq(players, 1)
    /\ state[1] = 1

\* C18: may_start_next of a track end reason, and of the track_end event
\* that carries it, is true for FINISHED and LOAD_FAILED and false for
\* STOPPED, REPLACED and CLEANUP
C18_MayStartNext ==
    /\ \A r \in TrackEndReasons :
          MayStartNext(r) <=> r \in {"FINISHED", "LOAD_FAILED"}
    /\ \A i \in 1..Len(dispatched) :
          dispatched[i].name = "track_end"
          => /\ dispatched[i].may_start_next
                <=> dispatched[i].reason \in {"FINISHED", "LOAD_FAILED"}
             /\ ~dispatched[i].may_start_next
                <=> dispatched[i].reason \in {"STOPPED", "REPLACED", "CLEANUP"}

\* a track_end event for a track that failed to load
C18_Witness ==
    /\ dispatched # <<>>
    /\ dispatched[1].name = "track_end"
    /\ dispatched[1].reason = "LOAD_FAILED"
    /\ dispatched[1].may_start_next

\* the tracks get() returned, and the first added track it did not return
Returned(qu) == {qu.got[i] : i \in 1..Len(qu.got)} \ {None}
NextUnreturned(qu) ==
    IF \A i \in 1..Len(qu.added) : qu.added[i] \in Returned(qu) THEN None
    ELSE qu.added[CHOOSE i \in 1..Len(qu.added) :
                    /\ qu.added[i] \notin Returned(qu)
                    /\ \A j \in 1..(i - 1) : qu.added[j] \in Returned(qu)]

\* C19: on a Queue with LoopType.none and on a ConsumptionQueue that only
\* add and get are called on, every get() returns the first added track
\* that no get() returned yet, and None when there is none; a
\* ConsumptionQueue then holds the tracks not returned yet
C19_GetInInsertionOrder ==
    [][(/\ queue # NoQueue
        /\ queue.loop_type = "none"
        /\ \A w \in Waiters : queue.waiters[w] = IdleWaiter
        /\ queue' # NoQueue
        /\ Len(queue'.got) = Len(queue.got) + 1)
       => /\ queue'.got[Len(queue'.got)] = NextUnreturned(queue)
          /\ queue.kind = "ConsumptionQueue"
             => Len(queue'.q) = Len(queue'.added) - Cardinality(Returned(queue'))]_vars

\* C20: on a waitable queue that only add and get_wait are called on, by one
\* task, no get_wait ends with an assertion error or None
C20_GetWaitNeverFails ==
    (/\ queue # NoQueue
     /\ queue.got = <<>>
     /\ queue.waiters[2] = IdleWaiter)
    => /\ queue.waiters[1].pc # "AssertionError"
       /\ queue.waiters[1].pc = "returned" => queue.waiters[1].result # None

\* the place of track t in the queue, and what the last get() returned
Pos(q, t) == CHOOSE i \in 1..Len(q) : q[i] = t
LastGot(qu) == IF qu.got = <<>> THEN None ELSE qu.got[Len(qu.got)]

\* C21: on a non-empty Queue with LoopType.queue that only add and get are
\* called on, get() never returns None: it returns the first track when no
\* track was returned before, and otherwise the track that follows the one
\* returned last, the first one after the last one
C21_LoopQueueCycles ==
    [][(/\ queue # NoQueue
        /\ queue' # NoQueue
        /\ queue.kind = "Queue"
        /\ queue.loop_type = "queue"
        /\ \A w \in Waiters : queue.waiters[w] = IdleWaiter
        /\ queue.q # <<>>
        /\ Len(queue'.got) = Len(queue.got) + 1)
       => /\ LastGot(queue') # None
          /\ LastGot(queue') =
                IF LastGot(queue) = None THEN queue.q[1]
                ELSE queue.q[(Pos(queue.q, LastGot(queue)) % Len(queue.q)) + 1]]_vars

\* the only track came twice, then one added since, then the first again
C21_Witness ==
    /\ queue # NoQueue
    /\ queue.kind = "Queue"
    /\ queue.loop_type = "queue"
    /\ queue.got = <<TrackOf(1), TrackOf(1), TrackOf(2), TrackOf(1)>>

\* C22: on a non-empty Queue with LoopType.track, the first get() returns
\* the first track and a later get() returns the current track and leaves
\* the pointer where it is, while skip(count) moves the pointer on and
\* returns the track count places after it, None when there is none
C22_LoopTrack ==
    [][(/\ queue # NoQueue
        /\ queue' # NoQueue
        /\ queue.kind = "Queue"
        /\ queue.loop_type = "track"
        /\ queue.q # <<>>)
       => /\ Len(queue'.got) = Len(queue.got) + 1
             => /\ queue.index = -1 => LastGot(queue') = queue.q[1]
                /\ queue.index # -1
                   => /\ LastGot(queue') = QCurrent(queue)
                      /\ queue'.index = queue.index
          /\ (call.pc = "idle" /\ call'.op = "skip")
             => /\ call'.result =
                      IF queue.index + call'.arg < Len(queue.q)
                      THEN queue.q[queue.index + call'.arg + 1] ELSE None
                /\ queue.index < Len(queue.q)
                   => queue'.index > queue.index]_vars

\* the first track was returned twice, then skip went on to the second
C22_Witness ==
    /\ queue # NoQueue
    /\ queue.kind = "Queue"
    /\ queue.loop_type = "track"
    /\ queue.got = <<TrackOf(1), TrackOf(1)>>
    /\ call.op = "skip"
    /\ call.result = TrackOf(2)

\* C23: up_next of a Queue is what the get() that follows returns
C23_UpNextIsNextGet ==
    (queue # NoQueue /\ queue.kind = "Queue")
    => UpNext(queue) = Get(queue).result

\* C24: an add without discard that raises QueueFull leaves the tracks and
\* the pointer of the queue as they were
C24_QueueFullChangesNothing ==
    [][(/\ call.pc = "idle"
        /\ call'.op = "add"
        /\ ~call'.arg.discard
        /\ call'.exit = "QueueFull")
       => /\ queue'.q = queue.q
          /\ queue'.index = queue.index
          /\ queue'.current = queue.current]_vars

\* C25: a queue with a max_size never holds more tracks than that
C25_NeverMoreThanMaxSize ==
    (queue # NoQueue /\ queue.max_size # 0) => Len(queue.q) <= queue.max_size

\* C26: insert(index, track) with index within the queue puts the track at
\* that index, keeps the other tracks in their order and, on a Queue,
\* keeps the current track
C26_InsertAtIndex ==
    [][(/\ call.pc = "idle"
        /\ call'.op = "insert"
        /\ Len(call'.arg.tracks) = 1
        /\ call'.arg.index <= Len(queue.q))
       => /\ queue'.q = InsertAt(queue.q, call'.arg.index, call'.arg.tracks[1])
          /\ queue.kind = "Queue" => QCurrent(queue') = QCurrent(queue)]_vars

\* C27: shift() of a Queue that has a current track drops the tracks before
\* it and no other, and the track stays the current one
C27_ShiftToCurrent ==
    [][(/\ call.pc = "idle"
        /\ call'.op = "shift"
        /\ QCurrent(queue) # None)
       => /\ queue'.q = SubSeq(queue.q, queue.index + 1, Len(queue.q))
          /\ QCurrent(queue') = QCurrent(queue)]_vars

\* C28: copy() returns a queue with the tracks and the max_size of the
\* queue and, for a Queue, its loop type and pointer
C28_CopyIsEqual ==
    (queue # NoQueue /\ call.op = "copy")
    => /\ call.exit = "return"
       /\ call.result.q = queue.q
       /\ call.result.max_size = queue.max_size
       /\ queue.kind = "Queue"
          => /\ call.result.loop_type = queue.loop_type
             /\ call.result.index = queue.index

\* C29: after play(B) returned, having replaced a track the server was
\* playing, Player.track is B for as long as the server plays B, whichever
\* way the events of the replacement reach their handlers
C29_TrackIsPlayingTrack ==
    (/\ call.op = "play"
     /\ call.pc = "done"
     /\ call.exit = "return"
     /\ call.replaced # ""
     /\ server[call.guild] = call.track)
    => track[call.guild] = call.track

\* C30: play on a connected player raises ValueError, writing no frame,
\* exactly when the volume is outside 0..1000, the start time is below 0 or
\* the end time is less than the start time
C30_PlayValueError ==
    (call.op = "play" /\ call.connected)
    => /\ call.exit = "ValueError"
          <=> \/ call.volume # <<>>
                 /\ (call.volume[1] < 0 \/ call.volume[1] > 1000)
              \/ call.start # <<>> /\ call.start[1] < 0
              \/ /\ call.start # <<>>
                 /\ call.end # <<>>
                 /\ call.end[1] < call.start[1]
       /\ call.exit = "ValueError" => sent = <<>>

\* C31: after any sequence of add, remove, overwrite, clear and property
\* set/delete operations, reading the sink's property for a filter kind
\* returns the filter held for that kind, or None (0) when there is none,
\* never an error, and to_dict() carries that filter's payload, or the
\* default payload when there is none
C31_PropertyReadsSink ==
    /\ call.op = "get" =>
          call.exit = "return" /\ call.result = filters[call.key]
    /\ call.op = "to_dict" =>
          \A k \in FilterKinds :
             call.result[k] =
                IF filters[k] = 0 THEN Payload(k, DefaultSetting(k))
                ELSE Payload(k, filters[k])

\* C32: NodePool.destroy() on a pool holding any number of nodes completes
\* without raising and leaves the pool empty
C32_PoolDestroyCompletes ==
    caller.op = "pool_destroy" /\ caller.pc = "idle" =>
        caller.exit = "return" /\ PoolEmpty

\* the step taken ran the oldest handle_message task and it did something
\* for guild g: it updated the player, cleared its track or emitted an event
HandlerActsFor(g) ==
    /\ handlers # <<>>
    /\ handlers' = Tail(handlers)
    /\ Has(Head(handlers), "guildId")
    /\ Head(handlers).guildId = g
    /\ state' # state \/ track' # track \/ dispatched' # <<>>

\* C33: the effects of an earlier frame take place before those of a later
\* frame for the same guild. A handler suspended in player.reconnect() has
\* not emitted its event yet, and its frame arrived before every frame whose
\* handler has not run: no such later handler acts for the guild meanwhile
C33_SameGuildInArrivalOrder ==
    [][\A i \in DOMAIN suspended : ~HandlerActsFor(suspended[i].guildId)]_vars

\* C35: the websocket_close event is emitted only by a handler that had
\* initiated player.reconnect() before: the step that emits it resumes a
\* handler suspended in the reconnect of that guild's player
C35_ReconnectBeforeCloseEvent ==
    [][\A e \in DOMAIN dispatched' :
          dispatched'[e].name = "websocket_close" =>
             /\ suspended # <<>>
             /\ Len(suspended') = Len(suspended) - 1
             /\ \E i \in DOMAIN suspended :
                   suspended[i].guildId = ToStr(dispatched'[e].guild)]_vars

\* the close event of a registered player was emitted, its handler suspended
\* no more
C35_Witness ==
    /\ dispatched # <<>>
    /\ dispatched[1].name = "websocket_close"
    /\ InSeq(players, dispatched[1].guild)
    /\ suspended = <<>>

\* C36: a frame that cannot be decoded as JSON is skipped without ending the
\* listener task
C36_MalformedFrameSkipped ==
    \A t \in TaskIds : tasks[t].exit # "JSONDecodeError"

LacksField(data) ==
    \/ data.op = "playerUpdate" /\ ~Has(data, "state")
    \/ /\ data.op = "event"
       /\ \/ ~Has(data, "type")
          \/ data.type \notin EventTypes
          \/ /\ data.type = "WebSocketClosedEvent"
             /\ ~Has(data, "code") \/ ~Has(data, "reason")
          \/ data.type # "WebSocketClosedEvent" /\ ~Has(data, "track")
          \/ data.type = "TrackEndEvent" /\ ~Has(data, "reason")
          \/ data.type = "TrackStuckEvent" /\ ~Has(data, "thresholdMs")
          \/ data.type = "TrackExceptionEvent" /\ ~Has(data, "exception")

\* a message that is to be dropped: no or an unknown op code, no guildId, a
\* guild without a registered player, or a field missing
MustDrop(data) ==
    \/ Invalid(data)
    \/ /\ data.op # "stats"
       /\ \/ ~Has(data, "guildId")
          \/ /\ Numeric(data.guildId)
             /\ ~InSeq(players, ToInt(data.guildId)) \/ LacksField(data)

\* C37: handle_message returns without raising for a message that is to be
\* dropped
C37_DroppedWithoutRaising ==
    call.op = "handle_message" /\ MustDrop(call.data) => call.exit = "return"

\* C39: a configureResuming command is sent after a connect only when
\* resumption is enabled and a websocket had been established before: the
\* first successful connect sends none
C39_NoResumeOnFirstConnect ==
    [][\A i \in DOMAIN sent' :
          sent'[i][1] = "configureResuming" => ws_resume_key /\ wsCount > 0]_vars

\* C40: tasks that wait concurrently in get_wait() on one waitable queue
\* (here a consumption queue, on which get() hands out every track once)
\* each resume with a track no other task received, and none resumes with an
\* assertion error
C40_WaitersGetDistinctTracks ==
    (/\ queue # NoQueue
     /\ queue.kind = "ConsumptionQueue"
     /\ queue.got = <<>>)
    => /\ \A w \in Waiters : queue.waiters[w].pc # "AssertionError"
       /\ \A v, w \in Waiters :
             (/\ v # w
              /\ queue.waiters[v].pc = "returned"
              /\ queue.waiters[w].pc = "returned")
             => queue.waiters[v].result # queue.waiters[w].result

\* the listener tasks that run: started, not ended, their cancellation not
\* requested
RunningListeners ==
    {t \in TaskIds : tasks[t].pc \notin {"none", "done"} /\ ~tasks[t].cancel}

\* C34: under any interleaving of connect and disconnect calls of several
\* tasks and of the listener's reconnects, at most one websocket is open, it
\* is the one the manager holds (a replaced websocket has been closed), and
\* at most one listener task runs
C34_OneWebsocketOneListener ==
    /\ Cardinality(wsOpen) <= 1
    /\ \A w \in wsOpen : w = ws
    /\ Cardinality(RunningListeners) <= 1

====
